---- MODULE Spec2Model ----
(***************************************************************************)
(* Hub orchestrator dispatch path (invoke_bedrock_agent and                *)
(* get_cross_account_bedrock_client) and the chat frontend's upload flow   *)
(* (handleFileUpload in page.tsx).                                         *)
(*                                                                         *)
(* A Python / JavaScript string is a sequence of tokens (characters, or    *)
(* one opaque token for an identifier whose characters do not matter), so  *)
(* "" is <<>> and concatenation is \o.  Python's None is the one-token     *)
(* sequence None, which no string of the model equals.                     *)
(***************************************************************************)
EXTENDS Integers, Sequences, FiniteSets, TLC

\* ------------------------------------------------------------------ bounds
MaxAliasLen == 2
MaxStreamLen == 3
MaxChunkLen == 2
MaxDispatches == 2
MaxTime == 3600
TimeStep == 1800
MaxCallSecs == 60

\* --------------------------------------------------------------- constants
None == << "<None>" >>

LOCAL_ACCOUNT_ID == << "843074507558" >>
TARGET_ACCOUNT_ID == << "152864141302" >>
OTHER_ACCOUNT_ID == << "111122223333" >>

CROSS_ACCOUNT_ROLE_ARN ==
    [account |-> TARGET_ACCOUNT_ID, role |-> "cmcCrossAccountBedrockInvokeRole"]

CROSS_ACCOUNT_EXTERNAL_ID == "bedrock-cross-account-2024"

\* "STS credentials expire after ~1 hour": seconds a credential set is valid
CredLifetime == 3600

\* bedrock_client: the module-level client built from the ambient credentials
bedrock_client == [kind |-> "local", account |-> LOCAL_ACCOUNT_ID, cred |-> 0]

NoClient == [kind |-> "none", account |-> <<>>, cred |-> 0]

\* "No response from agent."
NoResponseText ==
    << "N", "o", " ", "r", "e", "s", "p", "o", "n", "s", "e", " ",
       "f", "r", "o", "m", " ", "a", "g", "e", "n", "t", "." >>

\* "Error: Missing alias_id for agent "
MissingAliasPrefix ==
    << "E", "r", "r", "o", "r", ":", " ", "M", "i", "s", "s", "i", "n", "g", " ",
       "a", "l", "i", "a", "s", "_", "i", "d", " ", "f", "o", "r", " ",
       "a", "g", "e", "n", "t", " " >>

\* ----------------------------------------------------------------- helpers
RECURSIVE SeqsUpTo(_, _)
SeqsUpTo(S, n) ==
    IF n = 0 THEN { <<>> }
    ELSE LET shorter == SeqsUpTo(S, n - 1)
         IN  shorter \cup { Append(s, x) : s \in shorter, x \in S }

\* Python truthiness of a str-or-None value: None and "" are falsy
Truthy(v) == v # None /\ Len(v) > 0

\* f"{v}": None prints as the four characters None
Format(v) == IF v = None THEN << "N", "o", "n", "e" >> ELSE v

\* ------------------------------------------------------------- input sets
AGENT_ID == << "PEGHWIVI5Y" >>
SECOND_AGENT_ID == << "SECONDAGENT" >>
UNKNOWN_AGENT_ID == << "NOSUCHAGENT" >>
AgentIds == { AGENT_ID, SECOND_AGENT_ID, UNKNOWN_AGENT_ID }

\* characters an alias_id is built from: a plain one, a double quote, a blank
AliasChars == { "A", "\"", " " }
AliasIds == { None } \cup SeqsUpTo(AliasChars, MaxAliasLen)

AccountIds == { None, <<>>, LOCAL_ACCOUNT_ID, TARGET_ACCOUNT_ID, OTHER_ACCOUNT_ID }

\* A registry entry (the dict handed to invoke_bedrock_agent).  A key that is
\* missing from the dict holds None, which is what agent.get(key) returns.
\* the capabilities attribute as stored in the table: the list of the
\* correct entry format, or the single string of the format problem
ListCapabilities == [type |-> "list", value |-> << "Vessel info", "Emergency procedures" >>]
ScalarCapabilities == [type |-> "str", value |-> << "Extract text..." >>]
Capabilities == { ListCapabilities, ScalarCapabilities }

AgentRecords ==
    [agent_id : { AGENT_ID }, alias_id : AliasIds, account_id : AccountIds,
     enabled : BOOLEAN, capabilities : Capabilities]

SessionIds == { << "session-1" >>, << "session-2" >> }
UserRequests == { << "Hello" >> }

\* bytes of the response stream: 'H', and the two bytes of U+00E9
Bytes == { 72, 195, 169 }
ByteStrings == SeqsUpTo(Bytes, MaxChunkLen)

TraceEvent == [chunk |-> FALSE, hasBytes |-> FALSE, bytes |-> <<>>]
ChunkNoBytes == [chunk |-> TRUE, hasBytes |-> FALSE, bytes |-> <<>>]
Chunk(bs) == [chunk |-> TRUE, hasBytes |-> TRUE, bytes |-> bs]

Events == { TraceEvent, ChunkNoBytes } \cup { Chunk(bs) : bs \in ByteStrings }
AllStreams == SeqsUpTo(Events, MaxStreamLen)

\* the streams of the routing specification: nothing, one chunk, an empty chunk
FewStreams == { <<>>, << Chunk(<< 72 >>) >>, << Chunk(<<>>) >> }

RemoteErrors == { "ResourceNotFoundException", "ValidationException",
                  "ExpiredTokenException" }

\* -------------------------------------------------------- bytes.decode
Chr(cp) == CASE cp = 72 -> "H" [] cp = 233 -> "U+00E9" [] OTHER -> "?"

\* bytes.decode("utf-8") over the model's bytes: a byte below 0x80 is one
\* character; 0xC2..0xDF starts a two-byte character and needs one
\* continuation byte 0x80..0xBF; anything else raises UnicodeDecodeError.
RECURSIVE Utf8Decode(_)
Utf8Decode(bs) ==
    IF bs = <<>> THEN [ok |-> TRUE, s |-> <<>>]
    ELSE IF Head(bs) < 128
    THEN LET rest == Utf8Decode(Tail(bs))
         IN  [ok |-> rest.ok, s |-> << Chr(Head(bs)) >> \o rest.s]
    ELSE IF Head(bs) \in 194..223 /\ Len(bs) >= 2 /\ bs[2] \in 128..191
    THEN LET rest == Utf8Decode(Tail(Tail(bs)))
             cp == (Head(bs) % 32) * 64 + (bs[2] % 64)
         IN  [ok |-> rest.ok, s |-> << Chr(cp) >> \o rest.s]
    ELSE [ok |-> FALSE, s |-> <<>>]

\* ------------------------------------------------------------------ state
VARIABLES
    registry,       \* agent_id -> AgentRecord, or NotFound when absent
    turnId,         \* the agent identifier the current chat turn asked for
    pc,             \* where the dispatch stands
    agent,          \* invoke_bedrock_agent's agent argument
    user_request,   \* its user_request argument
    session_id,     \* its session_id argument
    bedrock,        \* its local variable bedrock
    creds,          \* get_cross_account_bedrock_client's creds
    response,       \* the completion stream invoke_agent returned
    idx,            \* number of events of response consumed by the loop
    result,         \* the loop's accumulator
    outcome,        \* how the dispatch ended
    brokerCalls,    \* calls of get_cross_account_bedrock_client, this dispatch
    brokerReturned, \* the client that call returned, NoClient if none
    stsCalls,       \* assume_role requests of this dispatch
    identity,       \* the account get_caller_identity reported, this dispatch
    invokeCalls,    \* invoke_agent requests of this dispatch
    nextCred,       \* serial number of the next credential set STS issues
    dispatches,     \* chat turns handled so far
    now,            \* wall clock, seconds
    issued,         \* every credential set STS issued, with its expiry
    invoked         \* every invoke_agent call made, with its client and time

backendVars ==
    << registry, turnId, pc, agent, user_request, session_id, bedrock, creds, response,
       idx, result, outcome, brokerCalls, brokerReturned, stsCalls, identity,
       invokeCalls, nextCred, dispatches, now, issued, invoked >>

NotFound == [agent_id |-> None, alias_id |-> None, account_id |-> None,
             enabled |-> FALSE, capabilities |-> [type |-> "list", value |-> <<>>]]

NoOutcome == [form |-> "none", exc |-> "", value |-> <<>>]
Return(v) == [form |-> "return", exc |-> "", value |-> v]
Raise(e, msg) == [form |-> "raise", exc |-> e, value |-> msg]
NoCreds == [id |-> 0, account |-> <<>>]

\* The registry holds one entry, under AGENT_ID, drawn from Records
InitBackend(Records) ==
    /\ \E r \in Records :
         registry = [id \in AgentIds |-> IF id = AGENT_ID THEN r ELSE NotFound]
    /\ turnId = None
    /\ pc = "idle"
    /\ agent = NotFound
    /\ user_request = <<>>
    /\ session_id = <<>>
    /\ bedrock = NoClient
    /\ creds = NoCreds
    /\ response = <<>>
    /\ idx = 0
    /\ result = <<>>
    /\ outcome = NoOutcome
    /\ brokerCalls = 0
    /\ brokerReturned = NoClient
    /\ stsCalls = <<>>
    /\ identity = None
    /\ invokeCalls = <<>>
    /\ nextCred = 1
    /\ dispatches = 0
    /\ now = 0
    /\ issued = <<>>
    /\ invoked = <<>>

\* ----------------------------------------------------- registry lookup
\* a lookup that forgets the enabled flag
resolve_IgnoresEnabled(id) == registry[id]

\* resolve(agent_id): the entry, or NotFound when it is absent or disabled
resolve(id) ==
    IF registry[id] = NotFound \/ ~registry[id].enabled
    THEN NotFound
    ELSE registry[id]

\* ------------------------------------------------------------ dispatcher
\* bedrock.invoke_agent(agentId=..., agentAliasId=..., sessionId=..., inputText=...)
InvokeRequest(client, a, sid, text) ==
    [client |-> client, agentId |-> a.agent_id, agentAliasId |-> a.alias_id,
     sessionId |-> sid, inputText |-> text]

\* sts.assume_role(RoleArn=..., RoleSessionName=f"HubSession-{account_id}", ExternalId=...)
AssumeRoleRequest(account_id) ==
    [RoleArn |-> CROSS_ACCOUNT_ROLE_ARN,
     RoleSessionName |-> << "HubSession-" >> \o account_id,
     ExternalId |-> CROSS_ACCOUNT_EXTERNAL_ID]

\* a routing branch that forgets the comparison with the local account
UsesCrossAccount_AnyAccount(a) == Truthy(a.account_id)

\* which client the routing branch takes: TRUE for the cross-account flow
UsesCrossAccount(a) ==
    Truthy(a.account_id) /\ a.account_id # LOCAL_ACCOUNT_ID

\* the alias check at the top of invoke_bedrock_agent
AliasMissing(a) == ~Truthy(a.alias_id)

\* response = bedrock_client.invoke_agent(...): the global, not the variable
InvokeClient_Global(routed) == bedrock_client

\* the client invoke_agent is called on, given the routing variable
InvokeClient(routed) == routed

\* invoke_bedrock_agent, from its entry to its first remote call
invoke_bedrock_agent(a, text, sid) ==
    /\ agent' = a
    /\ user_request' = text
    /\ session_id' = sid
    /\ creds' = NoCreds
    /\ response' = <<>>
    /\ idx' = 0
    /\ result' = <<>>
    /\ brokerReturned' = NoClient
    /\ identity' = None
    /\ UNCHANGED << nextCred, now, issued >>
    /\ IF AliasMissing(a)
       THEN /\ outcome' = Return(MissingAliasPrefix \o Format(a.agent_id))
            /\ pc' = "done"
            /\ bedrock' = NoClient
            /\ brokerCalls' = 0
            /\ stsCalls' = <<>>
            /\ invokeCalls' = <<>>
            /\ UNCHANGED invoked
       ELSE IF UsesCrossAccount(a)
       THEN /\ outcome' = NoOutcome
            /\ pc' = "assume_role"
            /\ bedrock' = NoClient
            /\ brokerCalls' = 1
            /\ stsCalls' = << AssumeRoleRequest(a.account_id) >>
            /\ invokeCalls' = <<>>
            /\ UNCHANGED invoked
       ELSE /\ outcome' = NoOutcome
            /\ pc' = "invoke_agent"
            /\ bedrock' = bedrock_client
            /\ brokerCalls' = 0
            /\ stsCalls' = <<>>
            /\ invokeCalls' =
                 << InvokeRequest(InvokeClient(bedrock_client), a, sid, text) >>
            /\ invoked' = Append(invoked,
                 [dispatch |-> dispatches + 1,
                  client |-> InvokeClient(bedrock_client), at |-> now])

\* a dispatcher that fills in the defaults it reads into the dict it was given
AgentAfterDispatch_Defaults(a) ==
    [a EXCEPT !.account_id = IF @ \in { None, <<>> } THEN LOCAL_ACCOUNT_ID ELSE @]

\* the dict after invoke_bedrock_agent: it is read with agent.get(...) and
\* agent[...] only, never assigned to
AgentAfterDispatch(a) == a

\* the registry after a chat turn on id: the entry is the dict that was
\* handed to the dispatcher
RegistryAfter(id) ==
    IF resolve(id) = NotFound
    THEN registry
    ELSE [registry EXCEPT ![id] = AgentAfterDispatch(resolve(id))]

\* the chat turn for agent id with the prompt and session of one request:
\* look the agent up and, when it resolves, dispatch to it
ChatTurnOn(id, text, sid) ==
    /\ turnId' = id
    /\ registry' = RegistryAfter(id)
    /\ IF resolve(id) = NotFound
       THEN /\ outcome' = [form |-> "NotFound", exc |-> "", value |-> <<>>]
            /\ pc' = "done"
            /\ agent' = NotFound
            /\ user_request' = text
            /\ session_id' = sid
            /\ bedrock' = NoClient
            /\ creds' = NoCreds
            /\ response' = <<>>
            /\ idx' = 0
            /\ result' = <<>>
            /\ brokerCalls' = 0
            /\ brokerReturned' = NoClient
            /\ stsCalls' = <<>>
            /\ identity' = None
            /\ invokeCalls' = <<>>
            /\ UNCHANGED << nextCred, now, issued, invoked >>
       ELSE invoke_bedrock_agent(resolve(id), text, sid)

\* One chat turn: any agent, any prompt, any session
ChatTurn ==
    /\ pc \in { "idle", "done" }
    /\ dispatches < MaxDispatches
    /\ dispatches' = dispatches + 1
    /\ \E id \in AgentIds, text \in UserRequests, sid \in SessionIds :
         ChatTurnOn(id, text, sid)

\* a dispatcher that asks STS again after a denial
AssumeRoleDenied_Retry ==
    /\ pc = "assume_role"
    /\ stsCalls' = Append(stsCalls, stsCalls[Len(stsCalls)])
    /\ UNCHANGED << registry, turnId, agent, user_request, session_id, bedrock,
                    creds, response, idx, result, outcome, brokerCalls,
                    brokerReturned, identity, invokeCalls, nextCred,
                    dispatches, pc, now, issued, invoked >>

\* a dispatcher that catches the broker's exception and invokes locally
InvokesAfterBrokerFailure_LocalFallback(a, sid, text) ==
    << InvokeRequest(bedrock_client, a, sid, text) >>

\* the invoke_agent calls made after get_cross_account_bedrock_client raised:
\* none, the exception leaves invoke_bedrock_agent at the call of the broker
InvokesAfterBrokerFailure(a, sid, text) == <<>>

\* sts.assume_role is rejected (trust policy, external id): ClientError
AssumeRoleDenied ==
    /\ pc = "assume_role"
    /\ outcome' = Raise("ClientError", << "AccessDenied" >>)
    /\ pc' = "done"
    /\ invokeCalls' = invokeCalls
                        \o InvokesAfterBrokerFailure(agent, session_id, user_request)
    /\ UNCHANGED << registry, turnId, agent, user_request, session_id, bedrock, creds,
                    response, idx, result, brokerCalls, brokerReturned,
                    stsCalls, identity, nextCred, dispatches,
                    now, issued, invoked >>

\* a broker that keeps the first credential set it got and hands it out again
\* (_clients[account_id] of the pitfall "Caching Expired Credentials")
IssuedCreds_Cached ==
    IF issued = <<>>
    THEN [id |-> nextCred, account |-> stsCalls[Len(stsCalls)].RoleArn.account]
    ELSE [id |-> issued[1].id, account |-> issued[1].account]

\* creds = assumed['Credentials']: the set this assume_role call answered with
IssuedCreds ==
    [id |-> nextCred, account |-> stsCalls[Len(stsCalls)].RoleArn.account]

\* what STS has issued once this assume_role call answered
IssuedRecord ==
    IF \E j \in DOMAIN issued : issued[j].id = IssuedCreds.id
    THEN issued
    ELSE Append(issued, [id |-> IssuedCreds.id, account |-> IssuedCreds.account,
                         expires_at |-> now + CredLifetime,
                         dispatch |-> dispatches])

\* sts.assume_role answers with a fresh credential set of the role's account;
\* the isolated session is built from it and get_caller_identity is asked
AssumeRoleOk ==
    /\ pc = "assume_role"
    /\ creds' = IssuedCreds
    /\ issued' = IssuedRecord
    /\ nextCred' = nextCred + 1
    /\ pc' = "get_caller_identity"
    /\ UNCHANGED << registry, turnId, agent, user_request, session_id, bedrock,
                    response, idx, result, outcome, brokerCalls, brokerReturned,
                    stsCalls, identity, invokeCalls, dispatches, now, invoked >>

\* raise Exception(f"Expected account {account_id}, got {identity['Account']}")
MismatchError(account_id, account) ==
    Raise("Exception",
          << "Expected account " >> \o account_id \o << ", got " >> \o account)

\* a check that only looks for the local account
IdentityVerified_NotLocal(account, account_id) == account # LOCAL_ACCOUNT_ID

\* the check after get_caller_identity: TRUE when the client may be returned
IdentityVerified(account, account_id) == account = account_id

\* get_caller_identity answers: the account of the session's credentials, or
\* the local account when ambient credentials were used after all.  On a
\* mismatch get_cross_account_bedrock_client raises and so does the dispatch;
\* otherwise it returns the session's client and invoke_agent is called.
GetCallerIdentity ==
    /\ pc = "get_caller_identity"
    /\ \E account \in { creds.account, LOCAL_ACCOUNT_ID } :
         /\ identity' = account
         /\ IF IdentityVerified(account, agent.account_id)
            THEN LET client == [kind |-> "session", account |-> account,
                                cred |-> creds.id]
                 IN  /\ brokerReturned' = client
                     /\ bedrock' = client
                     /\ invokeCalls' = Append(invokeCalls,
                          InvokeRequest(InvokeClient(client), agent, session_id,
                                        user_request))
                     /\ invoked' = Append(invoked,
                          [dispatch |-> dispatches,
                           client |-> InvokeClient(client), at |-> now])
                     /\ pc' = "invoke_agent"
                     /\ UNCHANGED outcome
            ELSE /\ outcome' = MismatchError(agent.account_id, account)
                 /\ pc' = "done"
                 /\ invokeCalls' = invokeCalls
                        \o InvokesAfterBrokerFailure(agent, session_id, user_request)
                 /\ UNCHANGED << brokerReturned, bedrock, invoked >>
    /\ UNCHANGED << registry, turnId, agent, user_request, session_id, creds, response,
                    idx, result, brokerCalls, stsCalls, nextCred, dispatches,
                    now, issued >>

\* Time passes: any amount between two chat turns, and at most MaxCallSecs
\* while the dispatch waits for get_caller_identity (the HTTP client gives up
\* after that long)
TimePasses ==
    /\ \/ /\ pc \in { "idle", "done" }
          /\ now < MaxTime
          /\ now' = now + TimeStep
       \/ /\ pc = "get_caller_identity"
          /\ \A j \in DOMAIN issued :
                issued[j].id = creds.id =>
                    now < issued[j].expires_at - CredLifetime + MaxCallSecs
          /\ now' = now + MaxCallSecs
    /\ UNCHANGED << registry, turnId, pc, agent, user_request, session_id,
                    bedrock, creds, response, idx, result, outcome, brokerCalls,
                    brokerReturned, stsCalls, identity, invokeCalls, nextCred,
                    dispatches, issued, invoked >>

\* invoke_agent fails remotely: botocore raises ClientError
InvokeAgentError ==
    /\ pc = "invoke_agent"
    /\ \E code \in RemoteErrors : outcome' = Raise("ClientError", << code >>)
    /\ pc' = "done"
    /\ UNCHANGED << registry, turnId, agent, user_request, session_id, bedrock, creds,
                    response, idx, result, brokerCalls, brokerReturned,
                    stsCalls, identity, invokeCalls, nextCred, dispatches,
                    now, issued, invoked >>

\* invoke_agent answers with a completion stream drawn from Streams
InvokeAgentOk(Streams) ==
    /\ pc = "invoke_agent"
    /\ \E s \in Streams : response' = s
    /\ idx' = 0
    /\ result' = <<>>
    /\ pc' = "completion"
    /\ UNCHANGED << registry, turnId, agent, user_request, session_id, bedrock, creds,
                    outcome, brokerCalls, brokerReturned, stsCalls, identity,
                    invokeCalls, nextCred, dispatches, now, issued, invoked >>

\* result = text + result
Accumulate_Prepend(acc, text) == text \o acc

\* result += text
Accumulate(acc, text) == acc \o text

\* a loop that decodes with errors="ignore": undecodable bytes are dropped
ChunkText_Ignore(bs) ==
    [ok |-> TRUE,
     s |-> LET kept == SelectSeq(bs, LAMBDA b : b < 128)
           IN  [i \in 1..Len(kept) |-> Chr(kept[i])]]

\* event['chunk']['bytes'].decode('utf-8'): strict decoding
ChunkText(bs) == Utf8Decode(bs)

\* one iteration of "for event in response.get('completion', [])"
NextEvent ==
    /\ pc = "completion"
    /\ idx < Len(response)
    /\ LET event == response[idx + 1]
           decoded == ChunkText(event.bytes)
       IN  IF event.chunk /\ event.hasBytes
           THEN IF decoded.ok
                THEN /\ result' = Accumulate(result, decoded.s)
                     /\ idx' = idx + 1
                     /\ UNCHANGED << pc, outcome >>
                ELSE /\ outcome' = Raise("UnicodeDecodeError", <<>>)
                     /\ pc' = "done"
                     /\ UNCHANGED << result, idx >>
           ELSE /\ idx' = idx + 1
                /\ UNCHANGED << result, pc, outcome >>
    /\ UNCHANGED << registry, turnId, agent, user_request, session_id, bedrock, creds,
                    response, brokerCalls, brokerReturned, stsCalls, identity,
                    invokeCalls, nextCred, dispatches, now, issued, invoked >>

\* return result if result else "No response from agent."
FinalText(acc) == IF Len(acc) > 0 THEN acc ELSE NoResponseText

ReturnResult ==
    /\ pc = "completion"
    /\ idx = Len(response)
    /\ outcome' = Return(FinalText(result))
    /\ pc' = "done"
    /\ UNCHANGED << registry, turnId, agent, user_request, session_id, bedrock, creds,
                    response, idx, result, brokerCalls, brokerReturned,
                    stsCalls, identity, invokeCalls, nextCred, dispatches,
                    now, issued, invoked >>

\* =================================================================
\* Concurrent dispatches: invoke_bedrock_agent running in several threads.
\* Each thread has its own copy of the function's locals; the module-level
\* names (LOCAL_ACCOUNT_ID, bedrock_client, the registry) are only read.
\* =================================================================
NumThreads == 2
Threads == 1..NumThreads

VARIABLES
    threads,     \* thread -> the locals of its invoke_bedrock_agent call
    lastRouted   \* the client most recently assigned to any thread's bedrock

concVars == << threads, lastRouted >>

IdleThread ==
    [pc |-> "idle", agent |-> NotFound, session_id |-> <<>>,
     user_request |-> <<>>, bedrock |-> NoClient, creds |-> NoCreds,
     identity |-> None, brokerReturned |-> NoClient, stsCalls |-> <<>>,
     invokeCalls |-> <<>>, response |-> <<>>, idx |-> 0, result |-> <<>>,
     outcome |-> NoOutcome]

\* every chat turn carries the session of its own conversation
ThreadSession(p) == << "session-", ToString(p) >>

\* what the remote agent answers a thread: a decodable chunk, an
\* undecodable one, or an error
ThreadStreams == { << Chunk(<< 72 >>) >>, << Chunk(<< 169 >>) >> }
ThreadErrors == { "ExpiredTokenException" }

InitThreads ==
    /\ threads = [p \in Threads |-> IdleThread]
    /\ lastRouted = NoClient

\* the sequential dispatcher's variables, untouched by the threads
seqVars ==
    << turnId, pc, agent, user_request, session_id, bedrock, creds, response,
       idx, result, outcome, brokerCalls, brokerReturned, stsCalls, identity,
       invokeCalls, dispatches, now >>

\* thread p's chat turn: lookup, alias check, routing branch up to the
\* assume_role call or the assignment bedrock = bedrock_client
TStart(p) ==
    /\ threads[p].pc = "idle"
    /\ \E id \in AgentIds, text \in UserRequests :
         /\ registry' = RegistryAfter(id)
         /\ LET a == resolve(id)
                th == [IdleThread EXCEPT !.agent = a, !.user_request = text,
                                         !.session_id = ThreadSession(p)]
            IN  IF a = NotFound
                THEN /\ threads' = [threads EXCEPT ![p] =
                          [th EXCEPT !.pc = "done",
                                     !.outcome = [form |-> "NotFound", exc |-> "",
                                                  value |-> <<>>]]]
                     /\ UNCHANGED lastRouted
                ELSE IF AliasMissing(a)
                THEN /\ threads' = [threads EXCEPT ![p] =
                          [th EXCEPT !.pc = "done",
                                     !.outcome = Return(MissingAliasPrefix
                                                        \o Format(a.agent_id))]]
                     /\ UNCHANGED lastRouted
                ELSE IF UsesCrossAccount(a)
                THEN /\ threads' = [threads EXCEPT ![p] =
                          [th EXCEPT !.pc = "assume_role",
                                     !.stsCalls = << AssumeRoleRequest(a.account_id) >>]]
                     /\ UNCHANGED lastRouted
                ELSE /\ threads' = [threads EXCEPT ![p] =
                          [th EXCEPT !.pc = "routed", !.bedrock = bedrock_client]]
                     /\ lastRouted' = bedrock_client
    /\ UNCHANGED << nextCred, issued, invoked, seqVars >>

TAssumeRoleDenied(p) ==
    /\ threads[p].pc = "assume_role"
    /\ threads' = [threads EXCEPT ![p].pc = "done",
                       ![p].outcome = Raise("ClientError", << "AccessDenied" >>),
                       ![p].invokeCalls =
                           InvokesAfterBrokerFailure(threads[p].agent,
                                                     threads[p].session_id,
                                                     threads[p].user_request)]
    /\ UNCHANGED << lastRouted, registry, nextCred, issued, invoked, seqVars >>

TAssumeRoleOk(p) ==
    /\ threads[p].pc = "assume_role"
    /\ LET account == threads[p].stsCalls[1].RoleArn.account
       IN  /\ threads' = [threads EXCEPT ![p].pc = "get_caller_identity",
                              ![p].creds = [id |-> nextCred, account |-> account]]
           /\ issued' = Append(issued, [id |-> nextCred, account |-> account,
                                        expires_at |-> now + CredLifetime,
                                        dispatch |-> p])
    /\ nextCred' = nextCred + 1
    /\ UNCHANGED << lastRouted, registry, invoked, seqVars >>

\* the broker's identity check; on success bedrock = the session's client
TGetCallerIdentity(p) ==
    /\ threads[p].pc = "get_caller_identity"
    /\ \E account \in { threads[p].creds.account, LOCAL_ACCOUNT_ID } :
         IF IdentityVerified(account, threads[p].agent.account_id)
         THEN LET client == [kind |-> "session", account |-> account,
                             cred |-> threads[p].creds.id]
              IN  /\ threads' = [threads EXCEPT ![p].pc = "routed",
                                     ![p].identity = account,
                                     ![p].brokerReturned = client,
                                     ![p].bedrock = client]
                  /\ lastRouted' = client
         ELSE /\ threads' = [threads EXCEPT ![p].pc = "done",
                                 ![p].identity = account,
                                 ![p].outcome =
                                     MismatchError(threads[p].agent.account_id,
                                                   account),
                                 ![p].invokeCalls =
                                     InvokesAfterBrokerFailure(
                                         threads[p].agent, threads[p].session_id,
                                         threads[p].user_request)]
              /\ UNCHANGED lastRouted
    /\ UNCHANGED << registry, nextCred, issued, invoked, seqVars >>

\* a dispatcher whose routing result lives in a module-level variable
ThreadClient_Global(p) == lastRouted

\* the object thread p calls invoke_agent on: its own local bedrock
ThreadClient(p) == threads[p].bedrock

\* response = bedrock.invoke_agent(...), issued by thread p
TInvoke(p) ==
    /\ threads[p].pc = "routed"
    /\ threads' = [threads EXCEPT ![p].pc = "invoke_agent",
                       ![p].invokeCalls =
                           << InvokeRequest(InvokeClient(ThreadClient(p)),
                                            threads[p].agent,
                                            threads[p].session_id,
                                            threads[p].user_request) >>]
    /\ invoked' = Append(invoked, [dispatch |-> p,
                                   client |-> InvokeClient(ThreadClient(p)),
                                   at |-> now])
    /\ UNCHANGED << lastRouted, registry, nextCred, issued, seqVars >>

TInvokeAgentError(p) ==
    /\ threads[p].pc = "invoke_agent"
    /\ \E code \in ThreadErrors :
         threads' = [threads EXCEPT ![p].pc = "done",
                                    ![p].outcome = Raise("ClientError", << code >>)]
    /\ UNCHANGED << lastRouted, registry, nextCred, issued, invoked, seqVars >>

TInvokeAgentOk(p) ==
    /\ threads[p].pc = "invoke_agent"
    /\ \E st \in ThreadStreams :
         threads' = [threads EXCEPT ![p].pc = "completion",
                                    ![p].response = st]
    /\ UNCHANGED << lastRouted, registry, nextCred, issued, invoked, seqVars >>

TNextEvent(p) ==
    /\ threads[p].pc = "completion"
    /\ threads[p].idx < Len(threads[p].response)
    /\ LET event == threads[p].response[threads[p].idx + 1]
           decoded == ChunkText(event.bytes)
       IN  IF event.chunk /\ event.hasBytes
           THEN IF decoded.ok
                THEN threads' = [threads EXCEPT
                         ![p].result = Accumulate(threads[p].result, decoded.s),
                         ![p].idx = threads[p].idx + 1]
                ELSE threads' = [threads EXCEPT ![p].pc = "done",
                         ![p].outcome = Raise("UnicodeDecodeError", <<>>)]
           ELSE threads' = [threads EXCEPT ![p].idx = threads[p].idx + 1]
    /\ UNCHANGED << lastRouted, registry, nextCred, issued, invoked, seqVars >>

TReturnResult(p) ==
    /\ threads[p].pc = "completion"
    /\ threads[p].idx = Len(threads[p].response)
    /\ threads' = [threads EXCEPT ![p].pc = "done",
                       ![p].outcome = Return(FinalText(threads[p].result))]
    /\ UNCHANGED << lastRouted, registry, nextCred, issued, invoked, seqVars >>


\* =================================================================
\* Chat frontend: page.tsx (send, handleFileUpload) and the upload-url route
\* =================================================================
MaxSends == 2
MaxSettlingSends == 1
MaxNameLen == 3
MaxUploads == 1
TickMs == 60000

\* setTimeout(() => controller.abort(), 120000)
HubTimeoutMs == 120000

Undefined == << "<undefined>" >>

\* a || b: the first operand unless it is undefined or the empty string
JsOr(a, b) == IF a # Undefined /\ Len(a) > 0 THEN a ELSE b

Blanks == { " ", "\t", "\n" }
IsBlank(ch) == ch \in Blanks

\* String.prototype.trim
RECURSIVE TrimStart(_)
TrimStart(str) ==
    IF str # <<>> /\ IsBlank(Head(str)) THEN TrimStart(Tail(str)) ELSE str

RECURSIVE TrimEnd(_)
TrimEnd(str) ==
    IF str # <<>> /\ IsBlank(str[Len(str)])
    THEN TrimEnd(SubSeq(str, 1, Len(str) - 1))
    ELSE str

Trim(str) == TrimEnd(TrimStart(str))

\* ------------------------------------------------ parseAgentsFromResponse
\* A text is a sequence of tokens: a word, a blank, "**", "-", or one UTF-16
\* code unit of an emoji. The patterns carry no u flag, so the class
\* [U+1F4C4 U+1F6A2 U+2693 U+1F4CB] is a class of code units.
EmojiClass == { "D83D", "DCC4", "DEA2", "2693", "DCCB" }
\* the first index from k on whose token is in chars (is = TRUE) or is not
\* in chars (is = FALSE), Len(text) + 1 if none
First(text, k, chars, is) ==
    LET found == { j \in k..Len(text) : (text[j] \in chars) = is }
    IN  IF found = {} THEN Len(text) + 1
        ELSE CHOOSE j \in found : \A l \in found : j <= l

\* \s*([^\n]+) read from index k on: the blanks are skipped greedily and given
\* back one by one until a token other than a newline starts the group
RestOfLine(text, k) ==
    LET e == First(text, k, Blanks, FALSE)
        starts == { q \in k..e : q <= Len(text) /\ text[q] # "\n" }
        q == CHOOSE x \in starts : \A y \in starts : y <= x
    IN  IF starts = {} THEN [ok |-> FALSE, group |-> <<>>, end |-> k]
        ELSE [ok |-> TRUE,
              group |-> SubSeq(text, q, First(text, q, { "\n" }, TRUE) - 1),
              end |-> First(text, q, { "\n" }, TRUE)]

NoMatch == [ok |-> FALSE, name |-> <<>>, description |-> <<>>, end |-> 0]

\* pattern1 tried at index k: emoji **Name** - Description
Pattern1At(text, k) ==
    LET a == First(text, k + 1, Blanks, FALSE)
        nameEnd == First(text, a + 1, { "**" }, TRUE)
        d == First(text, nameEnd + 1, Blanks, FALSE)
        rest == RestOfLine(text, d + 1)
    IN  IF /\ text[k] \in EmojiClass
           /\ a <= Len(text) /\ text[a] = "**"
           /\ nameEnd <= Len(text) /\ nameEnd > a + 1
           /\ d <= Len(text) /\ text[d] \in { "-", "U+2013" }
           /\ rest.ok
        THEN [ok |-> TRUE, name |-> SubSeq(text, a + 1, nameEnd - 1),
              description |-> rest.group, end |-> rest.end]
        ELSE NoMatch

\* text.slice(index).match(/^[\s\S]*?(?=\*\*|$)/), then /-\s*([^\n]+)/ in it
FirstBullet(text, index) ==
    LET bullets == SubSeq(text, index, First(text, index, { "**" }, TRUE) - 1)
        hits == { h \in DOMAIN bullets :
                    bullets[h] = "-" /\ RestOfLine(bullets, h + 1).ok }
    IN  IF hits = {} THEN <<>>
        ELSE LET h == CHOOSE x \in hits : \A y \in hits : x <= y
             IN  Trim(RestOfLine(bullets, h + 1).group)

\* pattern2 tried at index k: **emoji Name**, described by its first bullet
Pattern2At(text, k) ==
    LET a == First(text, k + 1, Blanks, FALSE)
        b == First(text, a + 1, Blanks, FALSE)
        nameEnd == First(text, b, { "**" }, TRUE)
        nameStart == IF nameEnd = b /\ b > a + 1 THEN b - 1 ELSE b
    IN  IF /\ text[k] = "**"
           /\ a <= Len(text) /\ text[a] \in EmojiClass
           /\ nameEnd <= Len(text) /\ nameEnd > nameStart
        THEN [ok |-> TRUE, name |-> SubSeq(text, nameStart, nameEnd - 1),
              description |-> FirstBullet(text, nameEnd + 1), end |-> nameEnd + 1]
        ELSE NoMatch

\* String.prototype.toLowerCase on the words the responses use
ToLowerCase(str) ==
    [k \in DOMAIN str |->
       CASE str[k] = "Doc" -> "doc"
         [] str[k] = "Reader" -> "reader"
         [] str[k] = "Ship" -> "ship"
         [] OTHER -> str[k]]

\* str.replace(/\s+/g, '-')
RECURSIVE BlanksToHyphen(_)
BlanksToHyphen(str) ==
    IF str = <<>> THEN <<>>
    ELSE IF IsBlank(Head(str))
         THEN << "-" >> \o BlanksToHyphen(TrimStart(str))
         ELSE << Head(str) >> \o BlanksToHyphen(Tail(str))

Agent1(m) ==
    [id |-> BlanksToHyphen(ToLowerCase(Trim(m.name))),
     name |-> Trim(m.name),
     description |-> Trim(m.description)]

Agent2(m) ==
    [id |-> BlanksToHyphen(ToLowerCase(Trim(m.name))),
     name |-> Trim(m.name),
     description |-> m.description]

\* while ((match = pattern1.exec(text)) !== null), from lastIndex k - 1 on
RECURSIVE ExecPattern1(_, _)
ExecPattern1(text, k) ==
    IF k > Len(text) THEN <<>>
    ELSE IF Pattern1At(text, k).ok
         THEN << Agent1(Pattern1At(text, k)) >>
                \o ExecPattern1(text, Pattern1At(text, k).end)
         ELSE ExecPattern1(text, k + 1)

RECURSIVE ExecPattern2(_, _)
ExecPattern2(text, k) ==
    IF k > Len(text) THEN <<>>
    ELSE IF Pattern2At(text, k).ok
         THEN << Agent2(Pattern2At(text, k)) >>
                \o ExecPattern2(text, Pattern2At(text, k).end)
         ELSE ExecPattern2(text, k + 1)

parseAgentsFromResponse(text) ==
    IF ExecPattern1(text, 1) # <<>> THEN ExecPattern1(text, 1)
    ELSE ExecPattern2(text, 1)

\* U+1F4C4 **Doc Reader** - reads files
DocReaderText ==
    << "D83D", "DCC4", " ", "**", "Doc", " ", "Reader", "**", " ", "-", " ",
       "reads", " ", "files" >>

\* **U+1F6A2 Ship** and its bullet on the next line
ShipText ==
    << "**", "D83D", "DEA2", " ", "Ship", "**", "\n", "-", " ", "sails" >>

Inputs == { <<>>, << " " >>, << "h" >>, << " ", "h", " " >> }
FileNames == { << "a.pdf" >> }

\* every file name of up to MaxNameLen characters, the ones a URL escapes
\* among them
NameChars == { "a", " ", "%", "2", "0" }
AllFileNames == UNION { [1..n -> NameChars] : n \in 1..MaxNameLen }
FrontSessionIds == { << "session-1700000000000" >> }
S3_BUCKET_NAME == << "bucket" >>

\* the JSON bodies the hub answers with; a field that is absent is Undefined
Bodies == [response : { Undefined, <<>>, << "answer" >> },
           error : { Undefined, <<>>, << "boom" >> }]

\* answers of the hub that list agents, one in each of the two layouts
AgentBodies == [response : { DocReaderText, ShipText }, error : { Undefined }]

\* what the fetch of send() resolved with, as res.json() will see it: a JSON
\* object, or a body that is not JSON; NoBody before the fetch resolved and
\* after send() returned
NoBody == [kind |-> "none", response |-> Undefined, error |-> Undefined]
NotJson == [kind |-> "text", response |-> Undefined, error |-> Undefined]
JsonBody(data) == [kind |-> "json", response |-> data.response, error |-> data.error]
ChatBodies == { JsonBody(data) : data \in Bodies \cup AgentBodies } \cup { NotJson }

HttpStatuses == { 200, 500, 504 }
Ok(status) == status \in 200..299

NoResponse == << "No response" >>
NoResponseData == << "Processing complete but no response data" >>
StillProcessingText ==
    << "Document uploaded successfully! Processing is taking longer than expected. The document is being processed in the background - please try asking about it in a moment, or check CloudWatch logs for the result." >>
TimedOutText == << "Request timed out - document processing is taking too long" >>
PresignFailedText == << "Failed to get upload URL" >>
PutFailedText == << "Failed to upload file to S3" >>
NetworkErrorText == << "Failed to fetch" >>
JsonErrorText == << "Unexpected token < in JSON" >>
BodyErrorText == << "network error" >>

\* how a character of the key stands in the path of a URL
Escaped(ch) ==
    CASE ch = " " -> << "%", "2", "0" >>
      [] ch = "%" -> << "%", "2", "5" >>
      [] OTHER -> << ch >>

\* the path of the signed URL for a key: every character escaped, / kept
RECURSIVE EscapePath(_)
EscapePath(key) ==
    IF key = <<>> THEN <<>> ELSE Escaped(Head(key)) \o EscapePath(Tail(key))

\* the key S3 reads from the path of a request: %XX read back as a character
RECURSIVE UnescapePath(_)
UnescapePath(path) ==
    IF path = <<>> THEN <<>>
    ELSE IF Len(path) >= 3 /\ SubSeq(path, 1, 3) = << "%", "2", "0" >>
         THEN << " " >> \o UnescapePath(SubSeq(path, 4, Len(path)))
    ELSE IF Len(path) >= 3 /\ SubSeq(path, 1, 3) = << "%", "2", "5" >>
         THEN << "%" >> \o UnescapePath(SubSeq(path, 4, Len(path)))
    ELSE << Head(path) >> \o UnescapePath(Tail(path))

NoUrl == [bucket |-> <<>>, path |-> <<>>, expiresIn |-> 0]

\* getSignedUrl(s3Client, new PutObjectCommand({ Bucket, Key }), { expiresIn })
getSignedUrl(bucket, key, expiresIn) ==
    [bucket |-> bucket, path |-> EscapePath(key), expiresIn |-> expiresIn]

\* the object a PUT to a signed URL writes
PutObject(url) == [bucket |-> url.bucket, key |-> UnescapePath(url.path)]

\* route.ts POST: the signed URL and the s3Path it answers with
POST_BareKey(filename) ==
    LET key == << "sourceDocs/" >> \o filename
    IN  [uploadUrl |-> getSignedUrl(S3_BUCKET_NAME, key, 1500),
         s3Path |-> << "s3://" >> \o S3_BUCKET_NAME \o << "/" >> \o filename]
POST(filename) ==
    LET key == << "sourceDocs/" >> \o filename
    IN  [uploadUrl |-> getSignedUrl(S3_BUCKET_NAME, key, 1500),
         s3Path |-> << "s3://" >> \o S3_BUCKET_NAME \o << "/" >> \o key]

VARIABLES
    messages,     \* useState messages
    owners,       \* for each message, the handler call that appended it
    input,        \* useState input
    loading,      \* useState loading
    uploading,    \* useState uploading
    sessionId,    \* useState sessionId, fixed at first render
    sends,        \* the send() calls started so far: [pc, msg]
    upPc,         \* where handleFileUpload stands
    upFile,       \* file.name
    upS3Path,     \* s3Path of the presign answer
    upStatus,     \* hubRes.status
    upReply,      \* the message the upload flow answered with
    timer,        \* the setTimeout of the hub call: none, armed, cleared, fired
    elapsed,      \* ms since the timer was armed
    aborted,      \* controller.signal.aborted
    requests,     \* chat requests sent to NEXT_PUBLIC_API_URL
    uploads,      \* handleFileUpload calls started so far
    upLog,        \* for each upload: how its presign and its PUT ended, and
                  \* the index in requests of the chat request it sent (0: none)
    agents,       \* the agents panel
    upUrl,        \* uploadUrl of the presign answer
    s3Objects     \* the objects the bucket holds

frontVars ==
    << messages, owners, input, loading, uploading, sessionId, sends, upPc, upFile,
       upS3Path, upStatus, upReply, timer, elapsed, aborted, requests, uploads, upLog,
       agents, upUrl, s3Objects >>

vars == << backendVars, concVars, frontVars >>

NoMessage == [role |-> "", content |-> <<>>]
Message(role, content) == [role |-> role, content |-> content]

\* the updater handed to setMessages: m => [...m, msg]
Added_InFront(m, msg) == << msg >> \o m
Added(m, msg) == Append(m, msg)

\* the n-th call of send(), the n-th call of handleFileUpload
BySend(n) == [flow |-> "send", n |-> n]
ByUpload(n) == [flow |-> "upload", n |-> n]

InitFront ==
    /\ messages = <<>>
    /\ owners = <<>>
    /\ input = <<>>
    /\ loading = FALSE
    /\ uploading = FALSE
    /\ sessionId \in FrontSessionIds
    /\ sends = <<>>
    /\ upPc = "idle"
    /\ upFile = <<>>
    /\ upS3Path = <<>>
    /\ upStatus = 0
    /\ upReply = NoMessage
    /\ timer = "none"
    /\ elapsed = 0
    /\ aborted = FALSE
    /\ requests = <<>>
    /\ uploads = 0
    /\ upLog = <<>>
    /\ agents = <<>>
    /\ upUrl = NoUrl
    /\ s3Objects = {}

\* ------------------------------------------------------------------ send
\* onChange of the text box
TypeInput ==
    /\ \E v \in Inputs : input' = v
    /\ input' # input
    /\ UNCHANGED << messages, owners, loading, uploading, sessionId, sends, upPc,
                    upFile, upS3Path, upStatus, upReply, timer, elapsed,
                    aborted, requests, uploads, upLog, agents,
                    upUrl, s3Objects >>

\* the guard at the top of send()
SendBlocked == Trim(input) = <<>> \/ loading

\* send(), up to its fetch
Send ==
    /\ ~SendBlocked
    /\ Len(sends) < MaxSends
    /\ input' = <<>>
    /\ messages' = Added(messages, Message("user", Trim(input)))
    /\ owners' = Append(owners, BySend(Len(sends) + 1))
    /\ loading' = TRUE
    /\ requests' = Append(requests,
         [src |-> "send", prompt |-> Trim(input), session_id |-> sessionId,
          signal |-> FALSE])
    /\ sends' = Append(sends, [pc |-> "fetch", msg |-> Trim(input), body |-> NoBody, agents |-> agents])
    /\ UNCHANGED << uploading, sessionId, upPc, upFile, upS3Path, upStatus,
                    upReply, timer, elapsed, aborted, uploads, upLog, agents,
                    upUrl, s3Objects >>

\* the fetch of send() resolves (send() does not look at the status)
SendFetchResolve(i) ==
    /\ sends[i].pc = "fetch"
    /\ \E body \in ChatBodies :
         sends' = [sends EXCEPT ![i].pc = "json", ![i].body = body]
    /\ UNCHANGED << messages, owners, input, loading, uploading, sessionId, upPc,
                    upFile, upS3Path, upStatus, upReply, timer, elapsed,
                    aborted, requests, uploads, upLog, agents,
                    upUrl, s3Objects >>

\* the fetch of send() rejects: catch, then finally
SendFetchReject(i) ==
    /\ sends[i].pc = "fetch"
    /\ sends' = [sends EXCEPT ![i].pc = "done"]
    /\ messages' = Added(messages, Message("error", NetworkErrorText))
    /\ owners' = Append(owners, BySend(i))
    /\ loading' = FALSE
    /\ UNCHANGED << input, uploading, sessionId, upPc, upFile, upS3Path,
                    upStatus, upReply, timer, elapsed, aborted, requests,
                    uploads, upLog, agents,
                    upUrl, s3Objects >>

\* data.response || data.error || 'No response'
SendContent_ErrorFirst(data) == JsOr(data.error, JsOr(data.response, NoResponse))
SendContent(data) == JsOr(data.response, JsOr(data.error, NoResponse))

\* the agents state after lines 83-88; seen is the agents of the render in
\* which this send() was called, which its closure reads. ParsedAgents is
\* parseAgentsFromResponse tabulated over the contents send() can show.
ParsedAgents ==
    [text \in { SendContent(body) : body \in ChatBodies } |->
       parseAgentsFromResponse(text)]
AgentsAfter(seen, content) ==
    IF Len(seen) = 0 /\ Len(ParsedAgents[content]) > 0
    THEN ParsedAgents[content]
    ELSE agents

\* res.json() resolves with a body: the assistant message, then finally
SendJson(i) ==
    /\ sends[i].pc = "json"
    /\ sends[i].body.kind = "json"
    /\ sends' = [sends EXCEPT ![i].pc = "done", ![i].body = NoBody]
    /\ messages' = Added(messages, Message("assistant", SendContent(sends[i].body)))
    /\ agents' = AgentsAfter(sends[i].agents, SendContent(sends[i].body))
    /\ owners' = Append(owners, BySend(i))
    /\ loading' = FALSE
    /\ UNCHANGED << input, uploading, sessionId, upPc, upFile, upS3Path,
                    upStatus, upReply, timer, elapsed, aborted, requests,
                    uploads, upLog,
                    upUrl, s3Objects >>

\* res.json() rejects (the body is not JSON): catch, then finally
SendJsonReject(i) ==
    /\ sends[i].pc = "json"
    /\ sends[i].body.kind = "text"
    /\ sends' = [sends EXCEPT ![i].pc = "done", ![i].body = NoBody]
    /\ messages' = Added(messages, Message("error", JsonErrorText))
    /\ owners' = Append(owners, BySend(i))
    /\ loading' = FALSE
    /\ UNCHANGED << input, uploading, sessionId, upPc, upFile, upS3Path,
                    upStatus, upReply, timer, elapsed, aborted, requests,
                    uploads, upLog, agents,
                    upUrl, s3Objects >>

\* ------------------------------------------------------ handleFileUpload
\* catch (err) of handleFileUpload followed by its finally block
UploadFails_NoFinally(text) ==
    /\ messages' = Added(messages, Message("error", text))
    /\ owners' = Append(owners, ByUpload(uploads))
    /\ upReply' = Message("error", text)
    /\ UNCHANGED << uploading, loading >>
    /\ upPc' = "idle"
UploadFails(text) ==
    /\ messages' = Added(messages, Message("error", text))
    /\ owners' = Append(owners, ByUpload(uploads))
    /\ upReply' = Message("error", text)
    /\ uploading' = FALSE
    /\ loading' = FALSE
    /\ upPc' = "idle"

\* the log of the current upload once its presign step ended
PresignEnded(how) == [upLog EXCEPT ![uploads].presign = how]

\* the log of the current upload once its PUT ended; req is the index of the
\* chat request sent right after it, 0 when none is sent
PutEnded(how, req) == [upLog EXCEPT ![uploads].put = how, ![uploads].hub = req]

\* a file is picked: handleFileUpload up to the fetch of /api/upload-url
UploadStart(names) ==
    /\ upPc = "idle"
    /\ ~uploading
    /\ uploads < MaxUploads
    /\ uploads' = uploads + 1
    /\ upLog' = Append(upLog, [presign |-> "pending", put |-> "pending", hub |-> 0])
    /\ \E name \in names :
         /\ upFile' = name
         /\ messages' = Added(messages, Message("user", << "U+1F4CE " >> \o name))
    /\ owners' = Append(owners, ByUpload(uploads + 1))
    /\ uploading' = TRUE
    /\ upPc' = "presign"
    /\ upS3Path' = <<>>
    /\ upUrl' = NoUrl
    /\ upStatus' = 0
    /\ upReply' = NoMessage
    /\ timer' = "none"
    /\ elapsed' = 0
    /\ aborted' = FALSE
    /\ UNCHANGED << input, loading, sessionId, sends, requests, agents, s3Objects >>

\* /api/upload-url answers: not ok throws, ok goes on to res.json()
PresignResolve ==
    /\ upPc = "presign"
    /\ \E status \in HttpStatuses :
         IF Ok(status)
         THEN /\ upPc' = "presignJson"
              /\ UNCHANGED upLog
              /\ UNCHANGED << messages, owners, upReply, uploading, loading >>
         ELSE /\ UploadFails(PresignFailedText)
              /\ upLog' = PresignEnded("failed")
    /\ UNCHANGED << input, sessionId, sends, upFile, upS3Path, upStatus, timer,
                    elapsed, aborted, requests, uploads, agents,
                    upUrl, s3Objects >>

\* the fetch of /api/upload-url rejects
PresignReject ==
    /\ upPc = "presign"
    /\ UploadFails(NetworkErrorText)
    /\ upLog' = PresignEnded("failed")
    /\ UNCHANGED << input, sessionId, sends, upFile, upS3Path, upStatus, timer,
                    elapsed, aborted, requests, uploads, agents,
                    upUrl, s3Objects >>

\* res.json() gives { uploadUrl, s3Path }; the PUT to uploadUrl is issued
PresignJson ==
    /\ upPc = "presignJson"
    /\ upS3Path' = POST(upFile).s3Path
    /\ upUrl' = POST(upFile).uploadUrl
    /\ upPc' = "put"
    /\ upLog' = PresignEnded("ok")
    /\ UNCHANGED << messages, owners, input, loading, uploading, sessionId, sends,
                    upFile, upStatus, upReply, timer, elapsed, aborted,
                    requests, uploads, agents, s3Objects >>

\* res.json() of the /api/upload-url answer rejects
PresignJsonReject ==
    /\ upPc = "presignJson"
    /\ UploadFails(JsonErrorText)
    /\ upLog' = PresignEnded("failed")
    /\ UNCHANGED << input, sessionId, sends, upFile, upS3Path, upStatus, timer,
                    elapsed, aborted, requests, uploads, agents,
                    upUrl, s3Objects >>

\* an upload flow that makes up a session of its own
HubRequest_FreshSession(s3Path, sid) ==
    [src |-> "upload",
     prompt |-> << "Extract data from this S3 URI (" >> \o s3Path \o << ")" >>,
     session_id |-> << "session-1700000000001" >>, signal |-> TRUE]

\* where the hub call goes once the PUT succeeded: setLoading(true), the
\* AbortController and its timer, and the fetch with the controller's signal
HubRequest(s3Path, sid) ==
    [src |-> "upload",
     prompt |-> << "Extract data from this S3 URI (" >> \o s3Path \o << ")" >>,
     session_id |-> sid, signal |-> TRUE]

\* an upload flow that does not look at the answer of the PUT
PutSucceeded_Unchecked(status) == TRUE

\* if (!uploadRes.ok) throw new Error('Failed to upload file to S3')
PutSucceeded(status) == Ok(status)

\* the PUT answers
PutResolve ==
    /\ upPc = "put"
    /\ \E status \in HttpStatuses :
         /\ s3Objects' = IF Ok(status) THEN s3Objects \cup { PutObject(upUrl) }
                                       ELSE s3Objects
         /\ IF PutSucceeded(status)
            THEN /\ loading' = TRUE
                 /\ timer' = "armed"
                 /\ elapsed' = 0
                 /\ aborted' = FALSE
                 /\ requests' = Append(requests, HubRequest(upS3Path, sessionId))
                 /\ upPc' = "hub"
                 /\ upLog' = PutEnded(IF Ok(status) THEN "ok" ELSE "failed", Len(requests) + 1)
                 /\ UNCHANGED << messages, owners, upReply, uploading >>
            ELSE /\ UploadFails(PutFailedText)
                 /\ upLog' = PutEnded("failed", 0)
                 /\ UNCHANGED << timer, elapsed, aborted, requests >>
    /\ UNCHANGED << input, sessionId, sends, upFile, upS3Path, upStatus,
                    uploads, agents, upUrl >>

\* the PUT rejects
PutReject ==
    /\ upPc = "put"
    /\ UploadFails(NetworkErrorText)
    /\ upLog' = PutEnded("failed", 0)
    /\ UNCHANGED << input, sessionId, sends, upFile, upS3Path, upStatus, timer,
                    elapsed, aborted, requests, uploads, agents,
                    upUrl, s3Objects >>

\* time passes while the hub call is pending
Tick ==
    /\ upPc = "hub"
    /\ timer = "armed"
    /\ elapsed < HubTimeoutMs
    /\ elapsed' = elapsed + TickMs
    /\ UNCHANGED << messages, owners, input, loading, uploading, sessionId, sends,
                    upPc, upFile, upS3Path, upStatus, upReply, timer, aborted,
                    requests, uploads, upLog, agents,
                    upUrl, s3Objects >>

\* the timer callback: controller.abort()
TimerFires ==
    /\ timer = "armed"
    /\ elapsed >= HubTimeoutMs
    /\ timer' = "fired"
    /\ aborted' = TRUE
    /\ UNCHANGED << messages, owners, input, loading, uploading, sessionId, sends,
                    upPc, upFile, upS3Path, upStatus, upReply, elapsed,
                    requests, uploads, upLog, agents,
                    upUrl, s3Objects >>

\* what the upload flow shows once the aborted fetch rejected with AbortError:
\* the role and text of the message the outer catch appends
AbortReply == Message("error", TimedOutText)

\* the aborted hub fetch rejects with AbortError: inner catch rethrows
\* 'Request timed out ...', outer catch, finally
HubAborted ==
    /\ upPc = "hub"
    /\ aborted
    /\ messages' = Added(messages, AbortReply)
    /\ owners' = Append(owners, ByUpload(uploads))
    /\ upReply' = AbortReply
    /\ uploading' = FALSE
    /\ loading' = FALSE
    /\ upPc' = "idle"
    /\ UNCHANGED << input, sessionId, sends, upFile, upS3Path, upStatus, timer,
                    elapsed, aborted, requests, uploads, upLog, agents,
                    upUrl, s3Objects >>

\* the hub fetch rejects for another reason: clearTimeout, rethrow
HubReject ==
    /\ upPc = "hub"
    /\ ~aborted
    /\ timer' = "cleared"
    /\ UploadFails(NetworkErrorText)
    /\ UNCHANGED << input, sessionId, sends, upFile, upS3Path, upStatus,
                    elapsed, aborted, requests, uploads, upLog, agents,
                    upUrl, s3Objects >>

\* an upload flow that throws on a 504 as on any other failed answer
GatewayTimeoutReply_Error == Message("error", << "API error: ", "504", " - ", "body" >>)

\* what the upload flow shows for a 504 answer: the role and text of the
\* message appended before the return
GatewayTimeoutReply == Message("assistant", StillProcessingText)

\* the hub answers before the abort: clearTimeout, then by status
HubResolve ==
    /\ upPc = "hub"
    /\ ~aborted
    /\ timer' = "cleared"
    /\ \E status \in HttpStatuses :
         /\ upStatus' = status
         /\ IF Ok(status)
            THEN /\ upPc' = "hubJson"
                 /\ UNCHANGED << messages, owners, upReply, uploading, loading >>
            ELSE IF status = 504
            THEN /\ messages' = Added(messages, GatewayTimeoutReply)
                 /\ owners' = Append(owners, ByUpload(uploads))
                 /\ upReply' = GatewayTimeoutReply
                 /\ uploading' = FALSE
                 /\ loading' = FALSE
                 /\ upPc' = "idle"
            ELSE /\ upPc' = "hubText"
                 /\ UNCHANGED << messages, owners, upReply, uploading, loading >>
    /\ UNCHANGED << input, sessionId, sends, upFile, upS3Path, elapsed,
                    aborted, requests, uploads, upLog, agents,
                    upUrl, s3Objects >>

\* hubRes.text() of a failed answer: throw `API error: ${status} - ${text}`
HubText ==
    /\ upPc = "hubText"
    /\ UploadFails(<< "API error: ", ToString(upStatus), " - ", "body" >>)
    /\ UNCHANGED << input, sessionId, sends, upFile, upS3Path, upStatus, timer,
                    elapsed, aborted, requests, uploads, upLog, agents,
                    upUrl, s3Objects >>

\* hubRes.text() rejects (the body cannot be read): the rejection is what the
\* inner catch rethrows and the outer catch shows
HubTextReject ==
    /\ upPc = "hubText"
    /\ UploadFails(BodyErrorText)
    /\ UNCHANGED << input, sessionId, sends, upFile, upS3Path, upStatus, timer,
                    elapsed, aborted, requests, uploads, upLog, agents,
                    upUrl, s3Objects >>

\* data.response || data.error || 'Processing complete but no response data'
UploadContent(data) == JsOr(data.response, JsOr(data.error, NoResponseData))

\* hubRes.json() resolves: the assistant message, then finally
HubJson ==
    /\ upPc = "hubJson"
    /\ \E data \in Bodies :
         /\ messages' = Added(messages, Message("assistant", UploadContent(data)))
         /\ upReply' = Message("assistant", UploadContent(data))
    /\ owners' = Append(owners, ByUpload(uploads))
    /\ uploading' = FALSE
    /\ loading' = FALSE
    /\ upPc' = "idle"
    /\ UNCHANGED << input, sessionId, sends, upFile, upS3Path, upStatus, timer,
                    elapsed, aborted, requests, uploads, upLog, agents,
                    upUrl, s3Objects >>

\* hubRes.json() rejects: inner catch rethrows, outer catch, finally
HubJsonReject ==
    /\ upPc = "hubJson"
    /\ UploadFails(JsonErrorText)
    /\ UNCHANGED << input, sessionId, sends, upFile, upS3Path, upStatus, timer,
                    elapsed, aborted, requests, uploads, upLog, agents,
                    upUrl, s3Objects >>

\* =================================================================
\* Specifications
\* =================================================================
Init == InitBackend(AgentRecords) /\ InitThreads /\ InitFront

Next ==
    \/ ChatTurn /\ UNCHANGED << concVars, frontVars >>
    \/ AssumeRoleDenied /\ UNCHANGED << concVars, frontVars >>
    \/ AssumeRoleOk /\ UNCHANGED << concVars, frontVars >>
    \/ GetCallerIdentity /\ UNCHANGED << concVars, frontVars >>
    \/ InvokeAgentError /\ UNCHANGED << concVars, frontVars >>
    \/ InvokeAgentOk(FewStreams) /\ UNCHANGED << concVars, frontVars >>
    \/ NextEvent /\ UNCHANGED << concVars, frontVars >>
    \/ ReturnResult /\ UNCHANGED << concVars, frontVars >>
    \/ TimePasses /\ UNCHANGED << concVars, frontVars >>

\* the dispatcher with every registry entry and a few streams
Spec == Init /\ [][Next]_vars

\* one well-formed registry entry, local or cross-account
StreamRecords ==
    { r \in AgentRecords :
        /\ r.alias_id = << "A" >>
        /\ r.enabled
        /\ r.capabilities = ListCapabilities
        /\ r.account_id \in { None, TARGET_ACCOUNT_ID } }

InitStream == InitBackend(StreamRecords) /\ InitThreads /\ InitFront

NextStream ==
    \/ ChatTurn /\ UNCHANGED << concVars, frontVars >>
    \/ AssumeRoleDenied /\ UNCHANGED << concVars, frontVars >>
    \/ AssumeRoleOk /\ UNCHANGED << concVars, frontVars >>
    \/ GetCallerIdentity /\ UNCHANGED << concVars, frontVars >>
    \/ InvokeAgentError /\ UNCHANGED << concVars, frontVars >>
    \/ InvokeAgentOk(AllStreams) /\ UNCHANGED << concVars, frontVars >>
    \/ NextEvent /\ UNCHANGED << concVars, frontVars >>
    \/ ReturnResult /\ UNCHANGED << concVars, frontVars >>

\* the dispatcher with every completion stream
SpecStream == InitStream /\ [][NextStream]_vars

NextFront ==
    \/ TypeInput /\ UNCHANGED << backendVars, concVars >>
    \/ Send /\ UNCHANGED << backendVars, concVars >>
    \/ \E i \in 1..Len(sends) : SendFetchResolve(i) /\ UNCHANGED << backendVars, concVars >>
    \/ \E i \in 1..Len(sends) : SendFetchReject(i) /\ UNCHANGED << backendVars, concVars >>
    \/ \E i \in 1..Len(sends) : SendJson(i) /\ UNCHANGED << backendVars, concVars >>
    \/ \E i \in 1..Len(sends) : SendJsonReject(i) /\ UNCHANGED << backendVars, concVars >>
    \/ UploadStart(FileNames) /\ UNCHANGED << backendVars, concVars >>
    \/ PresignResolve /\ UNCHANGED << backendVars, concVars >>
    \/ PresignReject /\ UNCHANGED << backendVars, concVars >>
    \/ PresignJson /\ UNCHANGED << backendVars, concVars >>
    \/ PresignJsonReject /\ UNCHANGED << backendVars, concVars >>
    \/ PutResolve /\ UNCHANGED << backendVars, concVars >>
    \/ PutReject /\ UNCHANGED << backendVars, concVars >>
    \/ Tick /\ UNCHANGED << backendVars, concVars >>
    \/ TimerFires /\ UNCHANGED << backendVars, concVars >>
    \/ HubAborted /\ UNCHANGED << backendVars, concVars >>
    \/ HubReject /\ UNCHANGED << backendVars, concVars >>
    \/ HubResolve /\ UNCHANGED << backendVars, concVars >>
    \/ HubText /\ UNCHANGED << backendVars, concVars >>
    \/ HubTextReject /\ UNCHANGED << backendVars, concVars >>
    \/ HubJson /\ UNCHANGED << backendVars, concVars >>
    \/ HubJsonReject /\ UNCHANGED << backendVars, concVars >>

InitFrontOnly == InitBackend({ NotFound }) /\ InitThreads /\ InitFront

\* the page: send() and handleFileUpload interleaved
SpecFront == InitFrontOnly /\ [][NextFront]_vars

\* one upload of a file of any name, up to the request sent to the hub
NextRoute ==
    \/ UploadStart(AllFileNames) /\ UNCHANGED << backendVars, concVars >>
    \/ PresignResolve /\ UNCHANGED << backendVars, concVars >>
    \/ PresignJson /\ UNCHANGED << backendVars, concVars >>
    \/ PutResolve /\ UNCHANGED << backendVars, concVars >>
    \/ HubReject /\ UNCHANGED << backendVars, concVars >>

\* the upload-url route, the PUT it signs and the prompt built from its answer
SpecRoute == InitFrontOnly /\ [][NextRoute]_vars

\* a promise send() number i awaits settles: its fetch or its res.json()
SendSettles(i) ==
    /\ i \in DOMAIN sends
    /\ \/ SendFetchResolve(i)
       \/ SendFetchReject(i)
       \/ SendJson(i)
       \/ SendJsonReject(i)
    /\ UNCHANGED << backendVars, concVars >>

\* a promise handleFileUpload awaits settles: one of its three fetches, by an
\* answer, a rejection or the abort, or the reading of a body
UploadSettles ==
    /\ \/ PresignResolve
       \/ PresignReject
       \/ PresignJson
       \/ PresignJsonReject
       \/ PutResolve
       \/ PutReject
       \/ HubAborted
       \/ HubReject
       \/ HubResolve
       \/ HubText
       \/ HubTextReject
       \/ HubJson
       \/ HubJsonReject
    /\ UNCHANGED << backendVars, concVars >>

\* the steps of the page with at most MaxSettlingSends calls of send()
NextSettling ==
    \/ TypeInput /\ UNCHANGED << backendVars, concVars >>
    \/ Len(sends) < MaxSettlingSends /\ Send /\ UNCHANGED << backendVars, concVars >>
    \/ \E i \in 1..Len(sends) : SendFetchResolve(i) /\ UNCHANGED << backendVars, concVars >>
    \/ \E i \in 1..Len(sends) : SendFetchReject(i) /\ UNCHANGED << backendVars, concVars >>
    \/ \E i \in 1..Len(sends) : SendJson(i) /\ UNCHANGED << backendVars, concVars >>
    \/ \E i \in 1..Len(sends) : SendJsonReject(i) /\ UNCHANGED << backendVars, concVars >>
    \/ UploadStart(FileNames) /\ UNCHANGED << backendVars, concVars >>
    \/ PresignResolve /\ UNCHANGED << backendVars, concVars >>
    \/ PresignReject /\ UNCHANGED << backendVars, concVars >>
    \/ PresignJson /\ UNCHANGED << backendVars, concVars >>
    \/ PresignJsonReject /\ UNCHANGED << backendVars, concVars >>
    \/ PutResolve /\ UNCHANGED << backendVars, concVars >>
    \/ PutReject /\ UNCHANGED << backendVars, concVars >>
    \/ Tick /\ UNCHANGED << backendVars, concVars >>
    \/ TimerFires /\ UNCHANGED << backendVars, concVars >>
    \/ HubAborted /\ UNCHANGED << backendVars, concVars >>
    \/ HubReject /\ UNCHANGED << backendVars, concVars >>
    \/ HubResolve /\ UNCHANGED << backendVars, concVars >>
    \/ HubText /\ UNCHANGED << backendVars, concVars >>
    \/ HubTextReject /\ UNCHANGED << backendVars, concVars >>
    \/ HubJson /\ UNCHANGED << backendVars, concVars >>
    \/ HubJsonReject /\ UNCHANGED << backendVars, concVars >>

\* the page when no promise stays pending for ever
SpecFrontSettling ==
    /\ InitFrontOnly
    /\ [][NextSettling]_vars
    /\ WF_vars(UploadSettles)
    /\ \A i \in 1..MaxSettlingSends : WF_vars(SendSettles(i))

\* two well-formed registry entries, each local or in some other account
ConcRecords(id) ==
    { r \in [agent_id : { id }, alias_id : { << "A" >> },
             account_id : { LOCAL_ACCOUNT_ID, TARGET_ACCOUNT_ID, OTHER_ACCOUNT_ID },
             enabled : { TRUE }, capabilities : { ListCapabilities }] : TRUE }

\* the deploy step that loaded the registry precedes every chat turn
InitConcRegistry ==
    /\ \E r1 \in ConcRecords(AGENT_ID), r2 \in ConcRecords(SECOND_AGENT_ID) :
         registry = [id \in AgentIds |->
                        IF id = AGENT_ID THEN r1
                        ELSE IF id = SECOND_AGENT_ID THEN r2 ELSE NotFound]
    /\ turnId = None /\ pc = "idle" /\ agent = NotFound /\ user_request = <<>>
    /\ session_id = <<>> /\ bedrock = NoClient /\ creds = NoCreds
    /\ response = <<>> /\ idx = 0 /\ result = <<>> /\ outcome = NoOutcome
    /\ brokerCalls = 0 /\ brokerReturned = NoClient /\ stsCalls = <<>>
    /\ identity = None /\ invokeCalls = <<>> /\ nextCred = 1 /\ dispatches = 0
    /\ now = 0 /\ issued = <<>> /\ invoked = <<>>
    /\ InitThreads
    /\ InitFront

NextConc ==
    \/ \E p \in Threads : TStart(p) /\ UNCHANGED frontVars
    \/ \E p \in Threads : TAssumeRoleDenied(p) /\ UNCHANGED frontVars
    \/ \E p \in Threads : TAssumeRoleOk(p) /\ UNCHANGED frontVars
    \/ \E p \in Threads : TGetCallerIdentity(p) /\ UNCHANGED frontVars
    \/ \E p \in Threads : TInvoke(p) /\ UNCHANGED frontVars
    \/ \E p \in Threads : TInvokeAgentError(p) /\ UNCHANGED frontVars
    \/ \E p \in Threads : TInvokeAgentOk(p) /\ UNCHANGED frontVars
    \/ \E p \in Threads : TNextEvent(p) /\ UNCHANGED frontVars
    \/ \E p \in Threads : TReturnResult(p) /\ UNCHANGED frontVars

\* concurrent dispatches, every interleaving of their steps
SpecConc == InitConcRegistry /\ [][NextConc]_vars

\* the hub serves the page's chat requests in the order they were sent: the
\* chat turn of a request carries its prompt and its session_id, for the agent
\* the hub picked
HubChatTurn ==
    /\ pc \in { "idle", "done" }
    /\ dispatches < MaxDispatches
    /\ dispatches < Len(requests)
    /\ dispatches' = dispatches + 1
    /\ \E id \in AgentIds :
         ChatTurnOn(id, requests[dispatches + 1].prompt,
                    requests[dispatches + 1].session_id)

InitSession == InitBackend(StreamRecords) /\ InitThreads /\ InitFront

\* the page's steps that send chat requests, with the network failure that
\* ends each of its two fetches of the hub and makes the page ready again
NextRequests ==
    \/ TypeInput /\ UNCHANGED << backendVars, concVars >>
    \/ Send /\ UNCHANGED << backendVars, concVars >>
    \/ \E i \in 1..Len(sends) : SendFetchReject(i) /\ UNCHANGED << backendVars, concVars >>
    \/ UploadStart(FileNames) /\ UNCHANGED << backendVars, concVars >>
    \/ PresignResolve /\ UNCHANGED << backendVars, concVars >>
    \/ PresignJson /\ UNCHANGED << backendVars, concVars >>
    \/ PutResolve /\ UNCHANGED << backendVars, concVars >>
    \/ HubReject /\ UNCHANGED << backendVars, concVars >>

NextSession ==
    \/ NextRequests
    \/ HubChatTurn /\ UNCHANGED << concVars, frontVars >>
    \/ AssumeRoleDenied /\ UNCHANGED << concVars, frontVars >>
    \/ AssumeRoleOk /\ UNCHANGED << concVars, frontVars >>
    \/ GetCallerIdentity /\ UNCHANGED << concVars, frontVars >>
    \/ InvokeAgentError /\ UNCHANGED << concVars, frontVars >>
    \/ InvokeAgentOk(FewStreams) /\ UNCHANGED << concVars, frontVars >>
    \/ NextEvent /\ UNCHANGED << concVars, frontVars >>
    \/ ReturnResult /\ UNCHANGED << concVars, frontVars >>

\* the page and the hub's dispatcher together
SpecSession == InitSession /\ [][NextSession]_vars

\* =================================================================
\* Properties
\* =================================================================
\* the record the dispatcher was given routes to another account
IsCrossAccountRecord(a) ==
    a # NotFound /\ a.account_id \notin { None, <<>>, LOCAL_ACCOUNT_ID }

\* the record the dispatcher was given routes to the local account
IsLocalRecord(a) ==
    a # NotFound /\ a.account_id \in { None, <<>>, LOCAL_ACCOUNT_ID }

AliasEmpty(a) == a.alias_id \in { None, <<>> }

InvokedOnlyOn(client) ==
    \A i \in DOMAIN invokeCalls : invokeCalls[i].client = client

\* C1 as stated: every dispatch of a record whose account_id is set and differs
\* from the local account calls get_cross_account_bedrock_client exactly once
\* and invokes on the client it returned, never on bedrock_client.
C1_EveryCrossAccountDispatchCallsBroker ==
    (pc = "done" /\ IsCrossAccountRecord(agent)) =>
        /\ brokerCalls = 1
        /\ InvokedOnlyOn(brokerReturned)
        /\ ~InvokedOnlyOn(bedrock_client) \/ invokeCalls = <<>>

\* C1 amended: every dispatch of a record with a non-empty alias_id whose
\* account_id is set and differs from the local account calls
\* get_cross_account_bedrock_client exactly once, and every invoke_agent call
\* of that dispatch is issued on the client that call returned, never on
\* bedrock_client.
C1_CrossAccountUsesBrokerClient ==
    (pc # "idle" /\ IsCrossAccountRecord(agent) /\ ~AliasEmpty(agent)) =>
        /\ brokerCalls = 1
        /\ Len(stsCalls) = 1
        /\ Len(invokeCalls) <= 1
        /\ \A i \in DOMAIN invokeCalls :
             /\ invokeCalls[i].client = brokerReturned
             /\ brokerReturned.kind = "session"
             /\ invokeCalls[i].client # bedrock_client

C1_Witness ==
    /\ pc = "done"
    /\ IsCrossAccountRecord(agent)
    /\ brokerCalls = 1
    /\ Len(invokeCalls) = 1
    /\ invokeCalls[1].client = brokerReturned
    /\ brokerReturned.kind = "session"
    /\ outcome.form = "return"

\* C2: a dispatch of a record whose account_id is absent, empty or the local
\* account never calls the broker (no assume_role) and invokes only on
\* bedrock_client.
C2_LocalUsesLocalClient ==
    (pc # "idle" /\ IsLocalRecord(agent)) =>
        /\ brokerCalls = 0
        /\ stsCalls = <<>>
        /\ brokerReturned = NoClient
        /\ InvokedOnlyOn(bedrock_client)

C2_Witness ==
    /\ pc = "done"
    /\ agent # NotFound
    /\ agent.account_id = LOCAL_ACCOUNT_ID
    /\ Len(invokeCalls) = 1
    /\ invokeCalls[1].client = bedrock_client
    /\ stsCalls = <<>>
    /\ outcome.form = "return"

\* C3: when the identity verified after the role assumption is not the
\* requested account, the broker ends with its identity-check error (the
\* exception "Expected account <requested>, got <verified>"), returns no
\* client and nothing is invoked; a client is returned only when the verified
\* account is the requested one.
C3_MismatchReturnsNoClient ==
    /\ (identity # None /\ identity # agent.account_id) =>
          /\ pc = "done"
          /\ outcome = Raise("Exception",
                 << "Expected account " >> \o agent.account_id
                     \o << ", got " >> \o identity)
          /\ brokerReturned = NoClient
          /\ bedrock = NoClient
          /\ invokeCalls = <<>>
    /\ brokerReturned # NoClient =>
          /\ identity = agent.account_id
          /\ brokerReturned.account = agent.account_id

C3_Witness ==
    /\ pc = "done"
    /\ agent # NotFound
    /\ agent.account_id = TARGET_ACCOUNT_ID
    /\ identity = LOCAL_ACCOUNT_ID
    /\ outcome.form = "raise"
    /\ brokerReturned = NoClient

\* the events of a stream that carry text
IsTextChunk(event) == event.chunk /\ event.hasBytes
HasChunk(stream) == \E i \in DOMAIN stream : IsTextChunk(stream[i])
AllChunksEmpty(stream) ==
    \A i \in DOMAIN stream : IsTextChunk(stream[i]) => stream[i].bytes = <<>>

\* C4: a stream with no chunk at all gives the "No response from agent."
\* sentinel, and a stream with one or more chunks that are all empty gives the
\* empty string, not the sentinel.
C4_EmptyChunksAreNotNoChunks ==
    (pc = "done" /\ outcome.form = "return" /\ invokeCalls # <<>>) =>
        /\ ~HasChunk(response) => outcome.value = NoResponseText
        /\ (HasChunk(response) /\ AllChunksEmpty(response)) =>
               outcome.value = <<>>

\* the decoded chunks of a stream, concatenated in arrival order
RECURSIVE Flatten(_)
Flatten(stream) ==
    IF stream = <<>> THEN <<>>
    ELSE IF IsTextChunk(Head(stream))
    THEN Utf8Decode(Head(stream).bytes).s \o Flatten(Tail(stream))
    ELSE Flatten(Tail(stream))

\* C5: when every chunk decodes and the concatenation is not empty, the text
\* the dispatcher returns is the chunks' texts concatenated in arrival order.
C5_TextIsConcatenationInOrder ==
    /\ pc = "completion" => result = Flatten(SubSeq(response, 1, idx))
    /\ (pc = "done" /\ outcome.form = "return" /\ invokeCalls # <<>>
          /\ Flatten(response) # <<>>) =>
             outcome.value = Flatten(response)

C5_Witness ==
    /\ pc = "done"
    /\ response = << Chunk(<< 72 >>), Chunk(<< 195, 169 >>), Chunk(<< 72, 72 >>) >>
    /\ outcome = Return(<< "H", "U+00E9", "H", "H" >>)

\* C6: a dispatch of a record whose alias_id is empty or missing ends with an
\* error outcome, not a text result, and calls neither the broker nor
\* invoke_agent.
C6_MissingAliasIsAnError ==
    (pc # "idle" /\ agent # NotFound /\ AliasEmpty(agent)) =>
        /\ pc = "done"
        /\ outcome.form # "return"
        /\ brokerCalls = 0
        /\ stsCalls = <<>>
        /\ invokeCalls = <<>>

\* a stray quote, a blank or a control character in an alias_id
Malformed(alias) ==
    /\ alias # None
    /\ \E k \in DOMAIN alias : alias[k] \in { "\"", " ", "\t", "\n" }

\* C7: no invoke_agent call carries a malformed alias_id.
C7_NoMalformedAliasInvoked ==
    \A i \in DOMAIN invokeCalls : ~Malformed(invokeCalls[i].agentAliasId)

\* C8: a chat turn for a registry record whose enabled flag is false resolves
\* to NotFound and makes neither a broker call nor an invoke_agent call; every
\* call that is made is made for an enabled record.
C8_DisabledNeverDispatched ==
    /\ (pc # "idle" /\ registry[turnId] # NotFound /\ ~registry[turnId].enabled) =>
          /\ pc = "done"
          /\ outcome.form = "NotFound"
          /\ brokerCalls = 0
          /\ stsCalls = <<>>
          /\ invokeCalls = <<>>
    /\ (brokerCalls > 0 \/ stsCalls # <<>> \/ invokeCalls # <<>>) =>
          /\ agent = registry[turnId]
          /\ agent.enabled

C8_Witness ==
    /\ pc = "done"
    /\ turnId = AGENT_ID
    /\ ~registry[AGENT_ID].enabled
    /\ registry[AGENT_ID].alias_id = << "A" >>
    /\ registry[AGENT_ID].account_id = TARGET_ACCOUNT_ID
    /\ outcome.form = "NotFound"

\* C9: when the upload flow's hub call is still pending at the two-minute
\* deadline, the call is aborted and the flow answers with the assistant
\* message that processing is still going on, not with an error message.
C9_TimeoutGivesStillProcessing ==
    (timer = "fired" /\ upPc = "idle") =>
        /\ aborted
        /\ upReply = Message("assistant", StillProcessingText)

\* C10: in every dispatch, whatever its outcome, assume_role is called at most
\* once, the broker at most once and invoke_agent at most once.
C10_NoRetry ==
    /\ brokerCalls <= 1
    /\ Len(stsCalls) <= 1
    /\ Len(invokeCalls) <= 1

C10_Witness ==
    /\ pc = "done"
    /\ outcome = Raise("ClientError", << "ExpiredTokenException" >>)
    /\ brokerCalls = 1
    /\ Len(stsCalls) = 1
    /\ Len(invokeCalls) = 1

\* the cross-account invocations recorded so far
OnSession(call) == call.client.kind = "session"

\* C11: every cross-account invocation uses a credential set that STS issued
\* in that same dispatch and that has not expired when the call is made; no
\* two dispatches invoke with the same credential set.
C11_FreshCredentialsPerDispatch ==
    /\ \A i \in DOMAIN invoked :
         OnSession(invoked[i]) =>
             \E j \in DOMAIN issued :
                 /\ issued[j].id = invoked[i].client.cred
                 /\ issued[j].dispatch = invoked[i].dispatch
                 /\ invoked[i].at < issued[j].expires_at
    /\ \A i, k \in DOMAIN invoked :
         (OnSession(invoked[i]) /\ OnSession(invoked[k])
            /\ invoked[i].dispatch # invoked[k].dispatch) =>
             invoked[i].client.cred # invoked[k].client.cred

C11_Witness ==
    /\ Len(invoked) = 2
    /\ OnSession(invoked[1])
    /\ OnSession(invoked[2])
    /\ invoked[1].dispatch = 1
    /\ invoked[2].dispatch = 2
    /\ invoked[2].at >= issued[1].expires_at
    /\ invoked[2].at > issued[2].expires_at - CredLifetime

\* C12: concurrent dispatches do not interfere. Every invoke_agent call a
\* thread has issued went to the client that thread itself routed to: the
\* local client for a local record, and for a cross-account record a session
\* client built from credentials issued to that same thread and shared with
\* no other thread.
C12_ConcurrentDispatchesAreIsolated ==
    /\ \A i \in DOMAIN invoked :
         LET p == invoked[i].dispatch
         IN  /\ invoked[i].client = threads[p].bedrock
             /\ IsLocalRecord(threads[p].agent) =>
                    invoked[i].client = bedrock_client
             /\ IsCrossAccountRecord(threads[p].agent) =>
                    /\ invoked[i].client.kind = "session"
                    /\ invoked[i].client.account = threads[p].agent.account_id
                    /\ \E j \in DOMAIN issued :
                         /\ issued[j].dispatch = p
                         /\ issued[j].id = invoked[i].client.cred
    /\ \A p, q \in Threads :
         (p # q /\ threads[p].creds # NoCreds /\ threads[q].creds # NoCreds)
            => threads[p].creds.id # threads[q].creds.id

\* a local dispatch invoked while another thread, routed after it to a
\* cross-account session, has not invoked yet
C12_Witness ==
    /\ Len(invoked) = 1
    /\ invoked[1].dispatch = 2
    /\ invoked[1].client = bedrock_client
    /\ threads[1].pc = "routed"
    /\ threads[1].bedrock.kind = "session"
    /\ lastRouted = threads[1].bedrock

\* C14: a dispatch leaves the registry and the record it was given unchanged:
\* no step of any dispatch, successful or failing, changes a field of any
\* registry entry, and the record the dispatcher holds stays equal to the
\* registry's entry for the id of the turn.
C14_RegistryIsReadOnly ==
    [][/\ registry' = registry
       /\ agent' # NotFound => agent' = registry'[turnId']]_vars

\* a second dispatch on a record without account_id has failed remotely
C14_Witness ==
    /\ pc = "done"
    /\ dispatches >= 2
    /\ outcome.form = "raise"
    /\ agent # NotFound
    /\ agent.account_id = None
    /\ registry[turnId] = agent

Undecodable(event) ==
    event.chunk /\ event.hasBytes /\ ~Utf8Decode(event.bytes).ok

\* C15: a chunk that fails to decode is fatal for the invocation: when the
\* stream holds such a chunk the dispatch ends by raising the decode error,
\* never by returning text, and the loop never moves past such a chunk.
C15_DecodeFailureIsFatal ==
    /\ (pc = "done" /\ \E i \in DOMAIN response : Undecodable(response[i]))
          => outcome = Raise("UnicodeDecodeError", <<>>)
    /\ \A i \in 1..idx : ~Undecodable(response[i])

\* text had been accumulated when a later chunk failed to decode
C15_Witness ==
    /\ pc = "done"
    /\ outcome = Raise("UnicodeDecodeError", <<>>)
    /\ result # <<>>
    /\ idx >= 1
    /\ Undecodable(response[idx + 1])

\* C16: every finished dispatch has exactly one outcome, and an error is never
\* reported in the form of a text result: a returned text is the text
\* reassembled from the response of an invoke_agent call that was made and
\* whose stream was read to its end.
C16_ErrorsAreNeverReturnedAsText ==
    pc = "done" =>
        /\ outcome.form \in { "return", "raise", "NotFound" }
        /\ outcome.form = "return" =>
              /\ Len(invokeCalls) = 1
              /\ idx = Len(response)
              /\ outcome.value = FinalText(result)

\* the kind of an error as the caller sees it: the type of the exception
ErrorKind(o) == o.exc

\* the two causes of a failed identity check
LeakedLocal(account) == account = LOCAL_ACCOUNT_ID

\* C18: the broker classifies an identity-verification failure by cause: the
\* kind raised when the verified account is the local account differs from
\* the kind raised when it is some third account, and both differ from the
\* kind of a rejected role assumption.
C18_BrokerErrorsClassifiedByCause ==
    (/\ pc = "done"
     /\ agent # NotFound
     /\ identity # None
     /\ identity # agent.account_id) =>
        /\ outcome.form = "raise"
        /\ ErrorKind(outcome) # ErrorKind(Raise("ClientError", << "AccessDenied" >>))
        /\ \A other \in { LOCAL_ACCOUNT_ID, TARGET_ACCOUNT_ID, OTHER_ACCOUNT_ID } :
             (other # agent.account_id /\ LeakedLocal(other) # LeakedLocal(identity))
                => ErrorKind(MismatchError(agent.account_id, other))
                      # ErrorKind(outcome)

\* C19: the role the broker assumes is a function of the requested target
\* account: every assume_role request of a dispatch names a role in the
\* account of the record being dispatched, and the credentials issued for it
\* belong to that account.
C19_RoleIsInTheTargetAccount ==
    /\ \A i \in DOMAIN stsCalls :
         stsCalls[i].RoleArn.account = agent.account_id
    /\ creds # NoCreds => creds.account = agent.account_id

\* the broker was called for this dispatch and gave no client back
BrokerFailed ==
    pc = "done" /\ brokerCalls = 1 /\ brokerReturned = NoClient

\* C20: when the broker fails for a cross-account record, by a rejected role
\* assumption or by a failed identity check, the dispatch issues no
\* invoke_agent call at all, in particular none on the local client, and ends
\* with the broker's error.
C20_NoLocalFallbackAfterBrokerFailure ==
    (IsCrossAccountRecord(agent) /\ BrokerFailed) =>
        /\ invokeCalls = <<>>
        /\ outcome.form = "raise"
        /\ bedrock # bedrock_client

\* the identity check found the local account and the dispatch ended there
C20_Witness ==
    /\ IsCrossAccountRecord(agent)
    /\ BrokerFailed
    /\ identity = LOCAL_ACCOUNT_ID
    /\ outcome = MismatchError(agent.account_id, LOCAL_ACCOUNT_ID)
    /\ invokeCalls = <<>>

\* C17: a registry record whose capabilities is a single string, not a list
\* of strings, is rejected when the registry is loaded, so the record of a
\* dispatch always has a list there.
C17_NoDispatchOnScalarCapabilities ==
    (pc # "idle" /\ agent # NotFound) => agent.capabilities.type = "list"

\* C13: the session_id passes through unchanged end to end: every chat
\* request the page has sent, from send() and from the upload flow, carries
\* the page's sessionId; the chat turn the hub runs for a request carries that
\* request's session_id; and the dispatcher gives invoke_agent exactly the
\* session_id it received.
C13_SessionIdPassesThrough ==
    /\ \A i \in DOMAIN requests : requests[i].session_id = sessionId
    /\ dispatches \in DOMAIN requests =>
          session_id = requests[dispatches].session_id
    /\ \A i \in DOMAIN invokeCalls : invokeCalls[i].sessionId = session_id

\* a send() and an upload have both asked the hub, and the upload's turn has
\* reached invoke_agent through the cross-account client
C13_Witness ==
    /\ Len(requests) = 2
    /\ requests[1].src = "send"
    /\ requests[2].src = "upload"
    /\ dispatches = 2
    /\ Len(invokeCalls) = 1
    /\ invokeCalls[1].client.kind = "session"
    /\ invokeCalls[1].sessionId = sessionId
    /\ invokeCalls[1].inputText = requests[2].prompt

\* C21: every chat request the page sends to the hub is cancellable and
\* bounded by the two-minute ceiling: it was sent with the signal of an
\* AbortController whose timer aborts it, whether send() or the upload flow
\* sent it.
C21_EveryChatRequestIsCancellable ==
    \A i \in DOMAIN requests : requests[i].signal

\* the send() calls whose chat request has not settled yet
SendsInFlight == { i \in DOMAIN sends : sends[i].pc = "fetch" }

\* C24: at most one send() chat request is in flight at any time, and while
\* one is in flight loading is true (which is what keeps send() from starting
\* another), whatever the upload flow does in the meantime.
C24_AtMostOneSendInFlight ==
    /\ Cardinality(SendsInFlight) <= 1
    /\ SendsInFlight # {} => loading

\* the messages the n-th upload has appended after its file name
UploadReplies(n) ==
    { k \in DOMAIN messages : owners[k] = ByUpload(n) /\ messages[k].role # "user" }

Carries(content, token) == \E k \in DOMAIN content : content[k] = token

\* the hub has answered the current upload with a failed status and the
\* upload flow has finished
FailedAnswerHandled == upPc = "idle" /\ upStatus # 0 /\ ~Ok(upStatus)

\* C22 as stated: a 504 answer gives exactly one message for the upload, the
\* assistant's still-processing text, and no error message; any other failed
\* status gives exactly one error message, and it carries the status code.
C22_FailedStatusMessageCarriesStatus ==
    FailedAnswerHandled =>
        \E k \in DOMAIN messages :
            /\ UploadReplies(uploads) = { k }
            /\ IF upStatus = 504
               THEN messages[k] = Message("assistant", StillProcessingText)
               ELSE /\ messages[k].role = "error"
                    /\ Carries(messages[k].content, ToString(upStatus))

\* C22: a 504 answer gives exactly one message for the upload, the
\* assistant's still-processing text, and no error message; any other failed
\* status gives exactly one error message, which carries the status code
\* when the body of the answer could be read and is the read failure's
\* message otherwise.
C22_GatewayTimeoutIsNotAnError ==
    FailedAnswerHandled =>
        \E k \in DOMAIN messages :
            /\ UploadReplies(uploads) = { k }
            /\ IF upStatus = 504
               THEN messages[k] = Message("assistant", StillProcessingText)
               ELSE /\ messages[k].role = "error"
                    /\ \/ Carries(messages[k].content, ToString(upStatus))
                       \/ messages[k].content = BodyErrorText

\* the hub answered 504 while a send() was pending, and the upload finished
C22_Witness ==
    /\ FailedAnswerHandled
    /\ upStatus = 504
    /\ upReply = Message("assistant", StillProcessingText)
    /\ Cardinality(UploadReplies(uploads)) = 1
    /\ \E i \in DOMAIN sends : sends[i].pc = "fetch"

\* C23: the upload flow is strictly ordered.  The chat request of an upload
\* is sent only after its presign request and its PUT both succeeded, and it
\* refers to the s3Path the presign answered; an upload whose presign or PUT
\* failed has sent no chat request and has appended exactly one message after
\* its file name, an error message; and every chat request with an S3 URI
\* belongs to an upload.
C23_UploadFlowIsOrdered ==
    /\ \A n \in DOMAIN upLog :
         /\ upLog[n].hub # 0 =>
               /\ upLog[n].presign = "ok"
               /\ upLog[n].put = "ok"
               /\ upLog[n].hub \in DOMAIN requests
               /\ requests[upLog[n].hub].src = "upload"
         /\ upLog[n].put # "pending" => upLog[n].presign = "ok"
         /\ (upLog[n].presign = "failed" \/ upLog[n].put = "failed") =>
               /\ upLog[n].hub = 0
               /\ \E k \in DOMAIN messages :
                     /\ UploadReplies(n) = { k }
                     /\ messages[k].role = "error"
    /\ \A i \in DOMAIN requests :
         requests[i].src = "upload" => \E n \in DOMAIN upLog : upLog[n].hub = i
    /\ upPc = "hub" => requests[upLog[uploads].hub].prompt =
                          << "Extract data from this S3 URI (" >> \o upS3Path \o << ")" >>

\* the PUT of an upload failed after its presign succeeded
C23_Witness ==
    /\ uploads >= 1
    /\ upPc = "idle"
    /\ upLog[uploads].presign = "ok"
    /\ upLog[uploads].put = "failed"
    /\ upReply = Message("error", PutFailedText)
    /\ \A i \in DOMAIN requests : requests[i].src # "upload"


\* ---------------------------------------------------------------------
\* the messages a flow put on the list, by role
FlowMessages(owner, roles) ==
    { k \in DOMAIN messages : owners[k] = owner /\ messages[k].role \in roles }

\* a flow has one user message, at most one reply, exactly one reply once it
\* is over, and its user message stands before its reply
MatchedPair(owner, over) ==
    /\ Cardinality(FlowMessages(owner, { "user" })) = 1
    /\ Cardinality(FlowMessages(owner, { "assistant", "error" })) <= 1
    /\ over <=> FlowMessages(owner, { "assistant", "error" }) # {}
    /\ \A u \in FlowMessages(owner, { "user" }) :
         \A r \in FlowMessages(owner, { "assistant", "error" }) : u < r

UploadOver(n) == n < uploads \/ upPc = "idle"

EveryFlowIsAMatchedPair ==
    /\ DOMAIN owners = DOMAIN messages
    /\ \A k \in DOMAIN messages :
         /\ messages[k].role \in { "user", "assistant", "error" }
         /\ \/ \E i \in DOMAIN sends : owners[k] = BySend(i)
            \/ \E n \in 1..uploads : owners[k] = ByUpload(n)
    /\ \A i \in DOMAIN sends : MatchedPair(BySend(i), sends[i].pc = "done")
    /\ \A n \in 1..uploads :
         /\ MatchedPair(ByUpload(n), UploadOver(n))
         /\ \A u \in FlowMessages(ByUpload(n), { "user" }) :
              Carries(messages[u].content, "a.pdf")

\* a step leaves the list alone or puts one message at its end
AppendOnly ==
    /\ Len(messages') \in { Len(messages), Len(messages) + 1 }
    /\ SubSeq(messages', 1, Len(messages)) = messages

\* C25: the message list is append-only (no message is removed, replaced or
\* reordered) and every send() and every upload contributes one user message
\* and, later, exactly one assistant or error message placed after it.
C25_MessagesAreAppendOnlyPairs ==
    [](EveryFlowIsAMatchedPair) /\ [][AppendOnly]_vars

\* a send and an upload both over, their four messages interleaved
C25_Witness ==
    /\ Len(messages) = 4
    /\ uploads = 1 /\ upPc = "idle"
    /\ Len(sends) = 1 /\ sends[1].pc = "done"
    /\ owners[1] = BySend(1) /\ owners[2] = ByUpload(1)
    /\ owners[3] = BySend(1) /\ owners[4] = ByUpload(1)
    /\ messages[3].role = "assistant" /\ messages[4].role = "error"


\* ---------------------------------------------------------------------
NonEmptyString(v) == v # Undefined /\ v # <<>>

\* what the claim expects on screen for a body {response, error}
Displayed(body) ==
    IF NonEmptyString(body.response) THEN body.response
    ELSE IF NonEmptyString(body.error) THEN body.error
    ELSE << "No response" >>

\* send() number i reads its JSON body in this step and returns
ReadsBody(i) ==
    /\ sends[i].pc = "json"
    /\ sends[i].body.kind = "json"
    /\ sends'[i].pc = "done"

\* C27: for a body {response} or {error}, send() shows exactly one assistant
\* message: the response when it is a non-empty string, otherwise the error
\* when it is a non-empty string, otherwise 'No response'; the response wins
\* over the error when both are present.
C27_ResponseThenErrorThenNoResponse ==
    [][\A i \in DOMAIN sends :
         ReadsBody(i) =>
           messages' = Append(messages, Message("assistant", Displayed(sends[i].body)))]_vars

\* one send answered with both fields showed the response, another answered
\* with an empty response showed the error
C27_Witness ==
    /\ Len(sends) = 2
    /\ sends[1].pc = "done" /\ sends[2].pc = "json"
    /\ sends[2].body = JsonBody([response |-> << "answer" >>, error |-> << "boom" >>])
    /\ \E k \in DOMAIN messages :
         /\ owners[k] = BySend(1)
         /\ messages[k] = Message("assistant", << "boom" >>)


\* ---------------------------------------------------------------------
\* C26: once the agents list is non-empty no later response replaces or clears
\* it, and a response from which no agent can be parsed leaves it unchanged.
C26_AgentsAreSetAtMostOnce ==
    [][/\ agents # <<>> => agents' = agents
       /\ \A i \in DOMAIN sends :
            ReadsBody(i) /\ ExecPattern1(Displayed(sends[i].body), 1) = <<>>
                         /\ ExecPattern2(Displayed(sends[i].body), 1) = <<>>
              => agents' = agents]_vars


\* ---------------------------------------------------------------------
SendFinished(i) == i \in DOMAIN sends /\ sends[i].pc = "done"

\* this step is the last one of send() number i / of the running upload
SendFinishes(i) == i \in DOMAIN sends /\ sends[i].pc # "done" /\ sends'[i].pc = "done"
UploadFinishes == upPc # "idle" /\ upPc' = "idle"

\* C28: when every awaited promise settles, every send() and every
\* handleFileUpload() finishes, and its last step has set loading to false
\* (and, for the upload, uploading to false), whatever path it took.
C28_EveryFlowFinishesAndClearsItsFlags ==
    /\ \A i \in 1..MaxSettlingSends : (i \in DOMAIN sends) ~> SendFinished(i)
    /\ (upPc # "idle") ~> (upPc = "idle")
    /\ [][/\ \A i \in 1..MaxSettlingSends : SendFinishes(i) => ~loading'
          /\ UploadFinishes => ~loading' /\ ~uploading']_vars

\* an upload ended by the two-minute abort and a send ended by a body that
\* is not JSON, both flags down
C28_Witness ==
    /\ uploads = 1 /\ upPc = "idle" /\ upReply = AbortReply
    /\ SendFinished(1)
    /\ \E k \in DOMAIN messages :
         owners[k] = BySend(1) /\ messages[k] = Message("error", JsonErrorText)
    /\ ~loading /\ ~uploading


\* ---------------------------------------------------------------------
\* the key and the S3 URI the claim gives for a file name and an object
SourceDocsKey(name) == << "sourceDocs/" >> \o name
S3Uri(obj) == << "s3://" >> \o obj.bucket \o << "/" >> \o obj.key
NamedObject(name) == [bucket |-> S3_BUCKET_NAME, key |-> SourceDocsKey(name)]

\* the file names picked so far, read off the upload flows' user messages
PickedNames ==
    { Tail(messages[k].content) :
        k \in { x \in DOMAIN messages :
                  owners[x].flow = "upload" /\ messages[x].role = "user" } }

\* C29: for every file name the s3Path the route answers names exactly the
\* object its signed URL writes: the key is 'sourceDocs/' + filename, s3Path is
\* 's3://<bucket>/' + that key, and the prompt sent afterwards has that s3Path.
C29_S3PathNamesTheSignedObject ==
    /\ upUrl # NoUrl =>
         /\ upS3Path = S3Uri(NamedObject(upFile))
         /\ PutObject(upUrl) = NamedObject(upFile)
    /\ upPc = "hub" => NamedObject(upFile) \in s3Objects
    /\ \A obj \in s3Objects : \E name \in PickedNames : obj = NamedObject(name)
    /\ \A i \in DOMAIN requests :
         requests[i].src = "upload" =>
           \E obj \in s3Objects :
             requests[i].prompt =
               << "Extract data from this S3 URI (" >> \o S3Uri(obj) \o << ")" >>

\* a file named '%20' was stored under its own name and the request sent
C29_Witness ==
    /\ upPc = "hub"
    /\ upFile = << "%", "2", "0" >>
    /\ upUrl.path = << "sourceDocs/", "%", "2", "5", "2", "0" >>
    /\ s3Objects = { [bucket |-> S3_BUCKET_NAME,
                      key |-> << "sourceDocs/", "%", "2", "0" >>] }
    /\ Len(requests) = 1

====
